---- MODULE Spec2Model ----
(***************************************************************************)
(* Model of the PRISM challenge bot (src/v12_ultra_optimized):             *)
(*   - APIClient._api_call_with_retry, the retrying executor               *)
(*   - CacheManager, the TTL'd current region and the persisted            *)
(*     historical region                                                   *)
(*   - APIClient.get_current_prices, the cache-checked batch fetch         *)
(*   - APIClient.get_historical_prices_concurrent, the worker pool         *)
(*   - PortfolioStrategies, the three allocation strategies                *)
(*   - PortfolioValidator, validation and the budget top-up                *)
(* Strings that the code formats and parses (tickers, dates, file keys)    *)
(* are tuples of one-character strings.                                    *)
(***************************************************************************)
EXTENDS Integers, Sequences, FiniteSets, TLC

\* ------------------------------------------------------------------ config.py
MAX_RETRIES == 3
RETRY_BASE_DELAY == 1
CACHE_TTL == 300

\* ------------------------------------------------------------------ bounds
\* execute calls started in one behaviour
MaxCalls == 3
\* clock ticks in one behaviour
MaxTicks == 2
\* cache operations in one behaviour
MaxOps == 3
\* process restarts in one behaviour
MaxRestarts == 1
\* the largest preference strength tried; the smallest is as far below 0 as
\* this is above 100
MaxStrength == 103

\* ------------------------------------------------------------------ values
\* an optional value: None is the empty tuple, a value v is <<v>>
NoneV == <<>>

Some(v) == <<v>>

\* what one attempt of the wrapped operation does: return, or raise one of the
\* exception classes the except clauses tell apart
Outcomes == {"ok", "Timeout", "ConnectionError", "Exception"}

\* tickers of config.STOCKS (a sample), spelled as the code's strings
AAPL == <<"A", "A", "P", "L">>
BRKB == <<"B", "R", "K", ".", "B">>
V == <<"V">>
Tickers == {AAPL, BRKB, V}

\* dates in the %Y-%m-%d form get_historical_price parses
D1 == <<"2", "0", "2", "0", "-", "0", "1", "-", "0", "2">>
D2 == <<"2", "0", "2", "1", "-", "1", "2", "-", "3", "1">>
Dates == {D1, D2}

Prices == {1, 2}

VARIABLES
    stats,        \* APIClient.stats
    epc,          \* position inside _api_call_with_retry: idle, try, sleep, raised
    attempt,      \* the loop variable of _api_call_with_retry
    wait,         \* the local wait of the sleeping retry
    ret,          \* what the last _api_call_with_retry returned
    caller,       \* who called _api_call_with_retry: direct, gcp
    now,          \* datetime.now(), in seconds
    outcomes,     \* history: outcome of each attempt of the current call
    waits,        \* history: the sleeps of the current call
    hist,         \* history: counts of calls and attempts
    ticks,        \* history: clock ticks taken
    cache,        \* the CacheManager instance: both regions and its stats
    disk,         \* CACHE_FILE: absent, corrupt (unparseable), or the saved JSON
    cret,         \* what the last cache lookup returned
    cop,          \* history: the last cache operation and its arguments
    ch,           \* history: lookups made, last values set, last save
    gcp,          \* get_current_prices: position, locals and requests sent
    main,         \* main(): position in the loop and the last challenge
    pool,         \* get_historical_prices_concurrent: position, locals, futures
    wk,           \* the pool's tasks: each get_historical_price call's locals
    sel,          \* select_strategy: the context's strength and the result
    pf            \* build_portfolio, validate_portfolio, optimize_budget_usage:
                  \* the arguments of the calls and what they returned

apiVars == <<stats, epc, attempt, wait, ret, caller, outcomes, waits, hist>>
cacheVars == <<cache, disk, cret, cop, ch>>
otherVars == <<main, pool, wk, sel, pf>>
vars == <<stats, epc, attempt, wait, ret, caller, now, outcomes, waits, hist,
          ticks, cache, disk, cret, cop, ch, gcp, main, pool, wk, sel, pf>>

\* ------------------------------------------------------------------ helpers
RECURSIVE Pow2(_)
Pow2(n) == IF n = 0 THEN 1 ELSE 2 * Pow2(n - 1)

\* api_client.py:33,44,55: the except clause an outcome lands in. "Exception"
\* stands for every other subclass of Exception (HTTPError of raise_for_status,
\* a JSON decoding error); "none" means no clause catches it and it propagates.
ExceptClause_NoGeneric(o) ==
    IF o = "Timeout" THEN "timeout"
    ELSE IF o = "ConnectionError" THEN "connection"
    ELSE "none"

ExceptClause(o) ==
    IF o = "Timeout" THEN "timeout"
    ELSE IF o = "ConnectionError" THEN "connection"
    ELSE IF o = "Exception" THEN "generic"
    ELSE "none"

\* the two clauses that retry
IsTransient(o) == ExceptClause(o) \in {"timeout", "connection"}

\* api_client.py:34,45: a transient failure is retried while attempts remain
ShouldRetry_AnyFailure(att, o) == o # "ok" /\ att < MAX_RETRIES - 1

ShouldRetry(att, o) == IsTransient(o) /\ att < MAX_RETRIES - 1

\* api_client.py:35,46
BackoffWait(att) == RETRY_BASE_DELAY * Pow2(att)

\* api_client.py:30,37,41,48,52,57: the counters after one attempt
StatsAfterAttempt_CountOnReturn(st, att, o) ==
    IF o = "ok" THEN [st EXCEPT !.total_calls = @ + 1]
    ELSE IF IsTransient(o)
         THEN IF ShouldRetry(att, o)
              THEN [st EXCEPT !.retries = @ + 1]
              ELSE [st EXCEPT !.failures = @ + 1]
         ELSE IF ExceptClause(o) = "generic"
              THEN [st EXCEPT !.failures = @ + 1]
              ELSE st

StatsAfterAttempt(st, att, o) ==
    LET s1 == [st EXCEPT !.total_calls = @ + 1]
    IN  IF o = "ok" THEN s1
        ELSE IF IsTransient(o)
             THEN IF ShouldRetry(att, o)
                  THEN [s1 EXCEPT !.retries = @ + 1]
                  ELSE [s1 EXCEPT !.failures = @ + 1]
             ELSE IF ExceptClause(o) = "generic"
                  THEN [s1 EXCEPT !.failures = @ + 1]
                  ELSE s1

\* ------------------------------------------------------------------ APIClient
InitApi ==
    /\ stats = [total_calls |-> 0, retries |-> 0, failures |-> 0]
    /\ epc = "idle"
    /\ attempt = 0
    /\ wait = 0
    /\ ret = NoneV
    /\ caller = "none"
    /\ outcomes = <<>>
    /\ waits = <<>>
    /\ hist = [started |-> 0, completed |-> 0, failed |-> 0,
               attempts |-> 0, followed |-> 0]

\* entry of _api_call_with_retry: the for loop starts at attempt 0
BeginCall(who) ==
    /\ epc = "idle"
    /\ hist.started < MaxCalls
    /\ caller' = who
    /\ attempt' = 0
    /\ wait' = 0
    /\ outcomes' = <<>>
    /\ waits' = <<>>
    /\ hist' = [hist EXCEPT !.started = @ + 1]
    /\ IF 0 < MAX_RETRIES
       THEN epc' = "try" /\ ret' = ret
       ELSE epc' = "idle" /\ ret' = NoneV
    /\ UNCHANGED stats

\* one pass of the loop body: the call of func and the except clause it lands in
AttemptStep(o, data) ==
    /\ epc = "try"
    /\ stats' = StatsAfterAttempt(stats, attempt, o)
    /\ outcomes' = Append(outcomes, o)
    /\ IF o = "ok"
       THEN /\ ret' = data
            /\ epc' = "idle"
            /\ wait' = wait
            /\ waits' = waits
       ELSE IF ExceptClause(o) = "none"
            THEN /\ epc' = "raised"
                 /\ UNCHANGED <<ret, wait, waits>>
       ELSE IF ShouldRetry(attempt, o)
            THEN /\ wait' = BackoffWait(attempt)
                 /\ waits' = Append(waits, BackoffWait(attempt))
                 /\ epc' = "sleep"
                 /\ ret' = ret
            ELSE /\ ret' = NoneV
                 /\ epc' = "idle"
                 /\ wait' = wait
                 /\ waits' = waits
    /\ hist' = [hist EXCEPT
                  !.attempts = @ + 1,
                  !.followed = IF attempt > 0 THEN @ + 1 ELSE @,
                  !.completed = IF epc' = "idle" THEN @ + 1 ELSE @,
                  !.failed = IF epc' = "idle" /\ o # "ok" THEN @ + 1 ELSE @]
    /\ UNCHANGED <<attempt, caller>>

\* time.sleep(wait) returns and the loop moves to the next attempt
SleepDone ==
    /\ epc = "sleep"
    /\ now' = now + wait
    /\ attempt' = attempt + 1
    /\ IF attempt + 1 < MAX_RETRIES
       THEN epc' = "try" /\ ret' = ret /\ hist' = hist
       ELSE /\ epc' = "idle"
            /\ ret' = NoneV
            /\ hist' = [hist EXCEPT !.completed = @ + 1, !.failed = @ + 1]
    /\ UNCHANGED <<stats, wait, caller, outcomes, waits>>

\* ------------------------------------------------------------------ dicts and strings
EmptyDict == <<>>

Put(d, k, v) == [x \in (DOMAIN d) \cup {k} |-> IF x = k THEN v ELSE d[x]]

Remove(d, ks) == [x \in (DOMAIN d) \ ks |-> d[x]]

RECURSIVE SetToSeq(_)
SetToSeq(S) ==
    IF S = {} THEN <<>>
    ELSE LET x == CHOOSE y \in S : TRUE IN <<x>> \o SetToSeq(S \ {x})

\* str.split(sep): the parts between the separators
RECURSIVE SplitAcc(_, _, _, _)
SplitAcc(s, sep, cur, acc) ==
    IF s = <<>> THEN Append(acc, cur)
    ELSE IF Head(s) = sep
         THEN SplitAcc(Tail(s), sep, <<>>, Append(acc, cur))
         ELSE SplitAcc(Tail(s), sep, Append(cur, Head(s)), acc)

Split(s, sep) == SplitAcc(s, sep, <<>>, <<>>)

\* cache_manager.py:44: f"{ticker}|{date}"
KeyStr_Dash(ticker, date) == ticker \o <<"-">> \o date

KeyStr(ticker, date) == ticker \o <<"|">> \o date

\* ------------------------------------------------------------------ CacheManager
\* cache_manager.py:90: the auto-save period of set_historical_price
SaveEvery == 10

\* what the file system does to one save_to_file
IOOutcomes == {"ok", "open_fails", "write_fails"}

\* cache_manager.py:17-22: the fields __init__ sets before load_from_file
NewCache ==
    [current_price_cache |-> EmptyDict,
     historical_price_cache |-> EmptyDict,
     stats |-> [cache_hits |-> 0, cache_misses |-> 0]]

\* cache_manager.py:32-34: the loop over the file's items; a key that does not
\* split into exactly two parts raises, which ends the loop
RECURSIVE LoadItems(_, _)
LoadItems(items, h) ==
    IF items = <<>> THEN h
    ELSE LET parts == Split(Head(items)[1], "|")
         IN  IF Len(parts) # 2 THEN h
             ELSE LoadItems(Tail(items), Put(h, <<parts[1], parts[2]>>, Head(items)[2]))

\* cache_manager.py:25-37. The JSON layer is exact on a str -> number mapping.
LoadFromFile(c, d) ==
    IF d.kind # "json" THEN c
    ELSE [c EXCEPT !.historical_price_cache = LoadItems(d.historical, @)]

\* cache_manager.py:43-52: what a successful save writes. The items are written
\* in one fixed order.
FileContent(c, t) ==
    [kind |-> "json",
     historical |->
        LET keys == SetToSeq(DOMAIN c.historical_price_cache)
        IN  [i \in 1..Len(keys) |->
                <<KeyStr(keys[i][1], keys[i][2]), c.historical_price_cache[keys[i]]>>],
     last_updated |-> t]

\* cache_manager.py:39-54: the file after save_to_file, by what the file system
\* does: open() fails and the file is untouched, or the write fails after open()
\* truncated it, or the write completes
DiskAfterSave(c, d, t, io) ==
    IF io = "ok" THEN FileContent(c, t)
    ELSE IF io = "open_fails" THEN d
    ELSE [kind |-> "corrupt"]

\* cache_manager.py:36,53: how an I/O error inside load_from_file or
\* save_to_file ends: both bodies sit in a try with "except Exception"
IOErrorEnds_OpenOnly(io) == IF io = "open_fails" THEN "caught" ELSE "raised"

IOErrorEnds(io) == "caught"

\* cache_manager.py:62
IsFresh_Inclusive(entry, t) == t - entry.timestamp <= CACHE_TTL

IsFresh(entry, t) == t - entry.timestamp < CACHE_TTL

\* cache_manager.py:56-67: the value get_current_price returns
CurrentLookup(c, ticker, t) ==
    IF ticker \in DOMAIN c.current_price_cache
          /\ IsFresh(c.current_price_cache[ticker], t)
    THEN Some(c.current_price_cache[ticker].price)
    ELSE NoneV

\* cache_manager.py:63,66,80,83: the counters after a lookup that returned v
CountLookup_HitsOnly(c, hit) ==
    IF hit THEN [c EXCEPT !.stats.cache_hits = @ + 1] ELSE c

CountLookup(c, hit) ==
    IF hit THEN [c EXCEPT !.stats.cache_hits = @ + 1]
    ELSE [c EXCEPT !.stats.cache_misses = @ + 1]

\* cache_manager.py:56-67: the cache after get_current_price
GetCurrentPrice(c, ticker, t) == CountLookup(c, CurrentLookup(c, ticker, t) # NoneV)

\* cache_manager.py:69-74
SetCurrentPrice(c, ticker, price, t) ==
    [c EXCEPT !.current_price_cache = Put(@, ticker, [price |-> price, timestamp |-> t])]

\* cache_manager.py:76-84: the value get_historical_price returns
HistoricalLookup(c, ticker, date) ==
    IF <<ticker, date>> \in DOMAIN c.historical_price_cache
    THEN Some(c.historical_price_cache[<<ticker, date>>])
    ELSE NoneV

\* cache_manager.py:76-84: the cache after get_historical_price
GetHistoricalPrice(c, ticker, date) ==
    CountLookup(c, <<ticker, date>> \in DOMAIN c.historical_price_cache)

\* cache_manager.py:88: the assignment of set_historical_price
SetHistoricalPrice_Drop(c, ticker, date, price) == c

SetHistoricalPrice(c, ticker, date, price) ==
    [c EXCEPT !.historical_price_cache = Put(@, <<ticker, date>>, price)]

\* cache_manager.py:90: whether set_historical_price saves after the assignment
AutoSaveDue(c) == Cardinality(DOMAIN c.historical_price_cache) % SaveEvery = 0

\* cache_manager.py:100-108
ClearCurrentCache_Everything(c, t) ==
    [c EXCEPT !.current_price_cache = EmptyDict, !.historical_price_cache = EmptyDict]

ClearCurrentCache(c, t) ==
    [c EXCEPT !.current_price_cache =
        Remove(@, {k \in DOMAIN @ : t - @[k].timestamp >= CACHE_TTL})]

InitCache ==
    /\ disk = [kind |-> "absent"]
    /\ cache = LoadFromFile(NewCache, disk)
    /\ cret = NoneV
    /\ cop = [op |-> "init"]
    /\ ch = [lookups |-> 0, valued |-> 0, missed |-> 0,
             lastSetCur |-> EmptyDict, lastSetHist |-> EmptyDict,
             saved |-> NoneV, restarts |-> 0, ops |-> 0,
             newHist |-> 0, autosaves |-> 0]

GcpIdle ==
    [pc |-> "idle", tickers |-> <<>>, prices |-> EmptyDict,
     need_fetch |-> <<>>, sent |-> <<>>]

InitGcp == gcp = GcpIdle

\* main() has not been entered
MainOff == [pc |-> "off", challenge |-> NoneV]

\* no batch of get_historical_prices_concurrent is running
PoolIdle ==
    [pc |-> "idle", tickers |-> <<>>, date |-> <<>>, prices |-> EmptyDict,
     need_fetch |-> <<>>, merged |-> {}, hit0 |-> {},
     ev |-> [cache_hits |-> 0, cache_misses |-> 0,
             total_calls |-> 0, retries |-> 0, failures |-> 0]]

\* the components that a specification leaves out stay as constructed
InitRest ==
    /\ main = MainOff
    /\ pool = PoolIdle
    /\ wk = <<>>
    /\ sel = NoneV
    /\ pf = NoneV

\* history: 1 when set_historical_price(ticker, date, _) adds a key to c
NewKeys(c, ticker, date) ==
    IF <<ticker, date>> \in DOMAIN c.historical_price_cache THEN 0 ELSE 1

\* the ghost counters after a lookup
Looked(h, v) ==
    [h EXCEPT !.ops = @ + 1,
              !.lookups = @ + 1,
              !.valued = IF v # NoneV THEN @ + 1 ELSE @,
              !.missed = IF v = NoneV THEN @ + 1 ELSE @]

\* get_current_price(ticker)
GetCurrent(ticker) ==
    /\ ch.ops < MaxOps
    /\ cret' = CurrentLookup(cache, ticker, now)
    /\ cache' = GetCurrentPrice(cache, ticker, now)
    /\ cop' = [op |-> "get_current", ticker |-> ticker, at |-> now]
    /\ ch' = Looked(ch, cret')
    /\ UNCHANGED <<disk, now, ticks, apiVars, gcp, otherVars>>

\* set_current_price(ticker, price)
SetCurrent(ticker, price) ==
    /\ ch.ops < MaxOps
    /\ cache' = SetCurrentPrice(cache, ticker, price, now)
    /\ cop' = [op |-> "set_current", ticker |-> ticker, price |-> price]
    /\ ch' = [ch EXCEPT !.ops = @ + 1, !.lastSetCur = Put(@, ticker, price)]
    /\ UNCHANGED <<cret, disk, now, ticks, apiVars, gcp, otherVars>>

\* get_historical_price(ticker, date)
GetHistorical(ticker, date) ==
    /\ ch.ops < MaxOps
    /\ cret' = HistoricalLookup(cache, ticker, date)
    /\ cache' = GetHistoricalPrice(cache, ticker, date)
    /\ cop' = [op |-> "get_historical", ticker |-> ticker, date |-> date]
    /\ ch' = Looked(ch, cret')
    /\ UNCHANGED <<disk, now, ticks, apiVars, gcp, otherVars>>

\* set_historical_price(ticker, date, price), with the save it may trigger
SetHistorical(ticker, date, price, io) ==
    /\ ch.ops < MaxOps
    /\ cache' = SetHistoricalPrice(cache, ticker, date, price)
    /\ IF AutoSaveDue(cache')
       THEN /\ disk' = DiskAfterSave(cache', disk, now, io)
            /\ ch' = [ch EXCEPT !.ops = @ + 1,
                                !.lastSetHist = Put(@, <<ticker, date>>, price),
                                !.newHist = @ + NewKeys(cache, ticker, date),
                                !.autosaves = @ + 1,
                                !.saved = IF io = "ok"
                                          THEN Some(cache'.historical_price_cache)
                                          ELSE IF io = "open_fails" THEN @ ELSE NoneV]
       ELSE /\ disk' = disk
            /\ ch' = [ch EXCEPT !.ops = @ + 1,
                                !.lastSetHist = Put(@, <<ticker, date>>, price),
                                !.newHist = @ + NewKeys(cache, ticker, date)]
    /\ cop' = [op |-> IF AutoSaveDue(cache') /\ io # "ok" /\ IOErrorEnds(io) = "raised"
                      THEN "raised" ELSE "set_historical",
               ticker |-> ticker, date |-> date, price |-> price]
    /\ UNCHANGED <<cret, now, ticks, apiVars, gcp, otherVars>>

\* clear_current_cache()
ClearCurrent ==
    /\ ch.ops < MaxOps
    /\ cache' = ClearCurrentCache(cache, now)
    /\ cop' = [op |-> "clear_current"]
    /\ ch' = [ch EXCEPT !.ops = @ + 1]
    /\ UNCHANGED <<cret, disk, now, ticks, apiVars, gcp, otherVars>>

\* save_to_file(), the explicit flush
SaveToFile(io) ==
    /\ ch.ops < MaxOps
    /\ disk' = DiskAfterSave(cache, disk, now, io)
    /\ cop' = [op |-> IF io # "ok" /\ IOErrorEnds(io) = "raised" THEN "raised" ELSE "save",
               io |-> io]
    /\ ch' = [ch EXCEPT !.ops = @ + 1,
                        !.saved = IF io = "ok" THEN Some(cache.historical_price_cache)
                                  ELSE IF io = "open_fails" THEN @ ELSE NoneV]
    /\ UNCHANGED <<cache, cret, now, ticks, apiVars, gcp, otherVars>>

\* CacheManager() in a new process: the old instance's memory is gone and the
\* historical region is read back from the file
NewCacheManager ==
    /\ ch.restarts < MaxRestarts
    /\ cache' = LoadFromFile(NewCache, disk)
    /\ cret' = NoneV
    /\ cop' = [op |-> "load"]
    /\ ch' = [ch EXCEPT !.lastSetCur = EmptyDict, !.lastSetHist = EmptyDict,
                        !.lookups = 0, !.valued = 0, !.missed = 0,
                        !.newHist = 0, !.autosaves = 0,
                        !.restarts = @ + 1]
    /\ UNCHANGED <<disk, now, ticks, apiVars, gcp, otherVars>>

\* time passes
\* CacheManager() in a new process over a file that exists and cannot be read:
\* open() or the read raises inside load_from_file before any entry is assigned
ConstructUnreadable ==
    /\ ch.restarts < MaxRestarts
    /\ disk.kind # "absent"
    /\ cache' = NewCache
    /\ cret' = NoneV
    /\ cop' = [op |-> IF IOErrorEnds("read_fails") = "raised" THEN "raised" ELSE "load",
               io |-> "read_fails"]
    /\ ch' = [ch EXCEPT !.lastSetCur = EmptyDict, !.lastSetHist = EmptyDict,
                        !.lookups = 0, !.valued = 0, !.missed = 0,
                        !.newHist = 0, !.autosaves = 0,
                        !.restarts = @ + 1]
    /\ UNCHANGED <<disk, now, ticks, apiVars, gcp, otherVars>>

TickSteps == {1, CACHE_TTL - 1}

Tick(d) ==
    /\ ticks < MaxTicks
    /\ now' = now + d
    /\ ticks' = ticks + 1
    /\ UNCHANGED <<apiVars, cacheVars, gcp, otherVars>>

\* get_challenge / submit_solution: a call of the executor with one request
DirectCall ==
    /\ BeginCall("direct")
    /\ UNCHANGED <<now, ticks, cacheVars, gcp, otherVars>>

DirectAttempt ==
    /\ caller = "direct"
    /\ \E o \in Outcomes : AttemptStep(o, Some("json"))
    /\ UNCHANGED <<now, ticks, cacheVars, gcp, otherVars>>

Sleep ==
    /\ SleepDone
    /\ UNCHANGED <<ticks, cacheVars, gcp, otherVars>>

InitRetry ==
    /\ InitApi
    /\ InitCache
    /\ InitGcp
    /\ InitRest
    /\ now = 0
    /\ ticks = 0

NextRetry ==
    \/ DirectCall
    \/ DirectAttempt
    \/ Sleep

SpecRetry == InitRetry /\ [][NextRetry]_vars

\* ------------------------------------------------------------------ the cache on its own
CTickers == {AAPL, V}
CDates == {D1}

InitCacheSpec ==
    /\ InitApi
    /\ InitCache
    /\ InitGcp
    /\ InitRest
    /\ now = 0
    /\ ticks = 0

NextCache ==
    \/ \E t \in CTickers : GetCurrent(t)
    \/ \E t \in CTickers, p \in Prices : SetCurrent(t, p)
    \/ \E t \in CTickers, d \in CDates : GetHistorical(t, d)
    \/ \E t \in CTickers, d \in CDates, p \in Prices, io \in IOOutcomes :
          SetHistorical(t, d, p, io)
    \/ ClearCurrent
    \/ \E io \in IOOutcomes : SaveToFile(io)
    \/ NewCacheManager
    \/ \E d \in TickSteps : Tick(d)

SpecCache == InitCacheSpec /\ [][NextCache]_vars

\* ------------------------------------------------------------------ get_current_prices
PTickers == {AAPL, V}

\* the lists get_current_prices is called with
TickerLists ==
    {<<>>} \cup {<<a>> : a \in PTickers} \cup {<<a, b>> : a \in PTickers, b \in PTickers}

\* the quotes the server may answer with: 'last' per ticker, 0 for a falsy one
Responses == UNION {[S -> Prices \cup {0}] : S \in SUBSET PTickers}

\* what the POST does in this specification (a connection failure is handled
\* as a timeout is)
GcpOutcomes == {"ok", "Timeout", "Exception"}

\* api_client.py:93-98: the loop over tickers; the cache counts every lookup
RECURSIVE GcpScan_FetchAll(_, _, _, _, _)
GcpScan_FetchAll(c, tickers, t, prices, need) ==
    IF tickers = <<>> THEN [cache |-> c, prices |-> prices, need_fetch |-> need]
    ELSE LET tk == Head(tickers)
             v == CurrentLookup(c, tk, t)
         IN  GcpScan_FetchAll(GetCurrentPrice(c, tk, t), Tail(tickers), t,
                              IF v # NoneV THEN Put(prices, tk, v[1]) ELSE prices,
                              Append(need, tk))

RECURSIVE GcpScan(_, _, _, _, _)
GcpScan(c, tickers, t, prices, need) ==
    IF tickers = <<>> THEN [cache |-> c, prices |-> prices, need_fetch |-> need]
    ELSE LET tk == Head(tickers)
             v == CurrentLookup(c, tk, t)
         IN  IF v # NoneV
             THEN GcpScan(GetCurrentPrice(c, tk, t), Tail(tickers), t,
                          Put(prices, tk, v[1]), need)
             ELSE GcpScan(GetCurrentPrice(c, tk, t), Tail(tickers), t,
                          prices, Append(need, tk))

\* api_client.py:110-115: the items of the answer with a ticker and a truthy price
RECURSIVE StoreQuotes(_, _, _, _)
StoreQuotes(c, tks, resp, t) ==
    IF tks = <<>> THEN c
    ELSE StoreQuotes(SetCurrentPrice(c, Head(tks), resp[Head(tks)], t), Tail(tks), resp, t)

Quoted(resp) == {tk \in DOMAIN resp : resp[tk] # 0}

\* api_client.py:89-107: the cache check, and the start of the fetch when some
\* ticker missed
GCPBegin(tickers) ==
    /\ gcp.pc = "idle"
    /\ epc = "idle"
    /\ ch.ops < MaxOps
    /\ LET r == GcpScan(cache, tickers, now, EmptyDict, <<>>)
           nhit == r.cache.stats.cache_hits - cache.stats.cache_hits
       IN  /\ cache' = r.cache
           /\ gcp' = [pc |-> IF r.need_fetch # <<>> THEN "fetching" ELSE "idle",
                      tickers |-> tickers, prices |-> r.prices,
                      need_fetch |-> r.need_fetch, sent |-> <<>>]
           /\ IF r.need_fetch # <<>> THEN BeginCall("gcp") ELSE UNCHANGED apiVars
           /\ ch' = [ch EXCEPT !.ops = @ + 1,
                               !.lookups = @ + Len(tickers),
                               !.valued = @ + Cardinality({i \in 1..Len(tickers) :
                                   CurrentLookup(cache, tickers[i], now) # NoneV}),
                               !.missed = @ + Cardinality({i \in 1..Len(tickers) :
                                   CurrentLookup(cache, tickers[i], now) = NoneV})]
    /\ cop' = [op |-> "gcp_lookup", at |-> now]
    /\ UNCHANGED <<cret, disk, now, ticks, otherVars>>

\* one attempt of _fetch: the POST of need_fetch
GCPAttempt ==
    /\ caller = "gcp"
    /\ gcp.pc = "fetching"
    /\ \E o \in GcpOutcomes, resp \in Responses : AttemptStep(o, Some(resp))
    /\ gcp' = [gcp EXCEPT !.sent = Append(@, gcp.need_fetch)]
    /\ UNCHANGED <<now, ticks, cacheVars, otherVars>>

\* api_client.py:109-117: the answer is merged and written through, and the
\* call's locals go out of scope (gcp.prices is what is returned)
GCPFinish ==
    /\ gcp.pc = "fetching"
    /\ epc = "idle"
    /\ IF ret # NoneV /\ ret[1] # EmptyDict
       THEN LET resp == ret[1]
                good == Quoted(resp)
            IN  /\ cache' = StoreQuotes(cache, SetToSeq(good), resp, now)
                /\ gcp' = [GcpIdle EXCEPT
                              !.prices = [x \in (DOMAIN gcp.prices) \cup good |->
                                             IF x \in good THEN resp[x]
                                             ELSE gcp.prices[x]]]
                /\ ch' = [ch EXCEPT !.ops = @ + 1,
                              !.lastSetCur = [x \in (DOMAIN @) \cup good |->
                                                 IF x \in good THEN resp[x] ELSE @[x]]]
       ELSE /\ cache' = cache
            /\ gcp' = [GcpIdle EXCEPT !.prices = gcp.prices]
            /\ ch' = [ch EXCEPT !.ops = @ + 1]
    /\ cop' = [op |-> "gcp_finish"]
    /\ ret' = NoneV
    /\ caller' = "none"
    /\ attempt' = 0
    /\ wait' = 0
    /\ outcomes' = <<>>
    /\ waits' = <<>>
    /\ UNCHANGED <<cret, disk, now, ticks, stats, epc, hist, otherVars>>

InitPrices ==
    /\ InitApi
    /\ InitCache
    /\ InitGcp
    /\ InitRest
    /\ now = 0
    /\ ticks = 0

NextPrices ==
    \/ \E tks \in TickerLists : GCPBegin(tks)
    \/ GCPAttempt
    \/ Sleep
    \/ GCPFinish
    \/ \E t \in PTickers : gcp.pc = "idle" /\ GetCurrent(t)
    \/ \E d \in TickSteps : gcp.pc = "idle" /\ Tick(d)

SpecPrices == InitPrices /\ [][NextPrices]_vars

\* ------------------------------------------------------------------ save and reload
\* every historical region over the sample keys, as set_historical_price can
\* build it
HistoricalRegions ==
    UNION {[K -> Prices] : K \in SUBSET (Tickers \X Dates)}

InitRoundTrip ==
    /\ InitApi
    /\ InitGcp
    /\ InitRest
    /\ disk = [kind |-> "absent"]
    /\ \E h \in HistoricalRegions :
          /\ cache = [NewCache EXCEPT !.historical_price_cache = h]
          /\ ch = [lookups |-> 0, valued |-> 0, missed |-> 0,
                   lastSetCur |-> EmptyDict, lastSetHist |-> h,
                   saved |-> NoneV, restarts |-> 0, ops |-> 0,
                   newHist |-> 0, autosaves |-> 0]
    /\ cret = NoneV
    /\ cop = [op |-> "init"]
    /\ now = 0
    /\ ticks = 0

NextRoundTrip ==
    \/ \E t \in CTickers, p \in Prices : SetCurrent(t, p)
    \/ \E t \in CTickers, d \in CDates : GetHistorical(t, d)
    \/ \E io \in IOOutcomes : SaveToFile(io)
    \/ NewCacheManager

SpecRoundTrip == InitRoundTrip /\ [][NextRoundTrip]_vars

\* ------------------------------------------------------------------ the batched save
MSFT == <<"M", "S", "F", "T">>
GOOG == <<"G", "O", "O", "G">>
AMZN == <<"A", "M", "Z", "N">>
BTickers == {AAPL, MSFT, GOOG, AMZN, BRKB, V}

\* the sample keys in one fixed order
BKeys == SetToSeq(BTickers \X Dates)

\* the file an earlier process left behind after saving its first n keys
StoredFile(n) ==
    FileContent([NewCache EXCEPT !.historical_price_cache =
                    [k \in {BKeys[i] : i \in 1..n} |-> 1]], 0)

\* how many entries the file holds when the process starts
StoredSizes == {0, SaveEvery - 1, SaveEvery}

\* the keys written and looked up in the sample runs: one that every non-empty
\* file holds, and the ones around the tenth
AKeys == {BKeys[1], BKeys[SaveEvery - 1], BKeys[SaveEvery], BKeys[SaveEvery + 1]}

InitAutoSave ==
    /\ InitApi
    /\ InitGcp
    /\ InitRest
    /\ \E n \in StoredSizes : disk = StoredFile(n)
    /\ cache = LoadFromFile(NewCache, disk)
    /\ cret = NoneV
    /\ cop = [op |-> "init"]
    /\ ch = [lookups |-> 0, valued |-> 0, missed |-> 0,
             lastSetCur |-> EmptyDict, lastSetHist |-> EmptyDict,
             saved |-> Some(cache.historical_price_cache), restarts |-> 0, ops |-> 0,
             newHist |-> 0, autosaves |-> 0]
    /\ now = 0
    /\ ticks = 0

NextAutoSave ==
    \/ \E k \in AKeys, p \in Prices, io \in IOOutcomes :
          SetHistorical(k[1], k[2], p, io)
    \/ \E k \in AKeys : GetHistorical(k[1], k[2])
    \/ \E io \in IOOutcomes : SaveToFile(io)
    \/ NewCacheManager
    \/ ConstructUnreadable

SpecAutoSave == InitAutoSave /\ [][NextAutoSave]_vars

\* ------------------------------------------------------------------ construction
\* keys a cache file can hold: two that save_to_file writes, one without the
\* separator and one with two separators
FileKeys ==
    {KeyStr(AAPL, D1), KeyStr(V, D1), AAPL \o D1, KeyStr(V, D1) \o <<"|">> \o D2}

\* the "historical" object of a parseable file, in file order: up to two items
\* under distinct keys
FileItems ==
    {<<>>} \cup {<<<<k, p>>>> : k \in FileKeys, p \in Prices}
           \cup {it \in {<<<<k1, p1>>, <<k2, p2>>>> :
                            k1 \in FileKeys, k2 \in FileKeys,
                            p1 \in Prices, p2 \in Prices} : it[1][1] # it[2][1]}

\* cache_manager.py:16-23 over whatever file is there
InitLoad ==
    /\ InitApi
    /\ InitGcp
    /\ InitRest
    /\ \/ disk = [kind |-> "absent"]
       \/ disk = [kind |-> "corrupt"]
       \/ \E items \in FileItems :
             disk = [kind |-> "json", historical |-> items, last_updated |-> 0]
    /\ cache = LoadFromFile(NewCache, disk)
    /\ cret = NoneV
    /\ cop = [op |-> "init"]
    /\ ch = [lookups |-> 0, valued |-> 0, missed |-> 0,
             lastSetCur |-> EmptyDict, lastSetHist |-> EmptyDict,
             saved |-> NoneV, restarts |-> 0, ops |-> 0,
             newHist |-> 0, autosaves |-> 0]
    /\ now = 0
    /\ ticks = 0

NextLoad ==
    \/ NewCacheManager
    \/ \E t \in CTickers, d \in CDates : GetHistorical(t, d)
    \/ \E t \in CTickers, d \in CDates, p \in Prices, io \in IOOutcomes :
          SetHistorical(t, d, p, io)
    \/ \E io \in IOOutcomes : SaveToFile(io)

SpecLoad == InitLoad /\ [][NextLoad]_vars

\* ------------------------------------------------------------------ main()
\* what GET /prism can answer: an empty object, the end of the run, a client
Challenges ==
    {[present |-> FALSE, status |-> "absent"],
     [present |-> TRUE, status |-> "finished"],
     [present |-> TRUE, status |-> "active"]}

\* main.py:162-173: where the loop goes with what get_challenge returned
AfterChallenge_ReturnOnError(r) ==
    IF r = NoneV \/ ~r[1].present THEN "done"
    ELSE IF r[1].status = "finished" THEN "summary"
    ELSE "process"

AfterChallenge(r) ==
    IF r = NoneV \/ ~r[1].present THEN "summary"
    ELSE IF r[1].status = "finished" THEN "summary"
    ELSE "process"

\* the keys that process_challenge writes in the sample runs: the two after
\* the stored ones
MKeys == {BKeys[i] : i \in SaveEvery..(SaveEvery + 1)}

\* main.py:162: get_challenge enters _api_call_with_retry
MainGetChallenge ==
    /\ main.pc = "loop"
    /\ BeginCall("main")
    /\ main' = [main EXCEPT !.pc = "get"]
    /\ UNCHANGED <<now, ticks, cacheVars, gcp, pool, wk, sel, pf>>

\* api_client.py:64-67: one attempt of _get
MainAttempt ==
    /\ main.pc = "get"
    /\ caller = "main"
    /\ \E o \in Outcomes, c \in Challenges : AttemptStep(o, Some(c))
    /\ UNCHANGED <<now, ticks, cacheVars, gcp, otherVars>>

\* main.py:164-173: the two breaks, or the call of process_challenge
MainBranch ==
    /\ main.pc = "get"
    /\ epc = "idle"
    /\ main' = [pc |-> AfterChallenge(ret), challenge |-> ret]
    /\ UNCHANGED <<now, ticks, apiVars, cacheVars, gcp, pool, wk, sel, pf>>

\* main.py:173 and 91, api_client.py:147: a historical price that
\* process_challenge fetches is written through
ProcessWrite(key, price, io) ==
    /\ main.pc = "process"
    /\ SetHistorical(key[1], key[2], price, io)

\* main.py:173-180: process_challenge returns and the loop goes round; the
\* pause of 0.3 s is below the clock's resolution
ProcessReturn ==
    /\ main.pc = "process"
    /\ main' = [main EXCEPT !.pc = "loop"]
    /\ UNCHANGED <<now, ticks, apiVars, cacheVars, gcp, pool, wk, sel, pf>>

\* main.py:183-195: the summary is printed and the cache is saved
MainFlush(io) ==
    /\ main.pc = "summary"
    /\ disk' = DiskAfterSave(cache, disk, now, io)
    /\ cop' = [op |-> "flush", io |-> io]
    /\ ch' = [ch EXCEPT !.saved = IF io = "ok" THEN Some(cache.historical_price_cache)
                                  ELSE IF io = "open_fails" THEN @ ELSE NoneV]
    /\ main' = [main EXCEPT !.pc = "done"]
    /\ UNCHANGED <<cache, cret, now, ticks, apiVars, gcp, pool, wk, sel, pf>>

InitMain ==
    /\ InitApi
    /\ InitGcp
    /\ main = [MainOff EXCEPT !.pc = "loop"]
    /\ pool = PoolIdle
    /\ wk = <<>>
    /\ sel = NoneV
    /\ pf = NoneV
    /\ \E n \in {0, SaveEvery - 1} : disk = StoredFile(n)
    /\ cache = LoadFromFile(NewCache, disk)
    /\ cret = NoneV
    /\ cop = [op |-> "init"]
    /\ ch = [lookups |-> 0, valued |-> 0, missed |-> 0,
             lastSetCur |-> EmptyDict, lastSetHist |-> EmptyDict,
             saved |-> Some(cache.historical_price_cache), restarts |-> 0, ops |-> 0,
             newHist |-> 0, autosaves |-> 0]
    /\ now = 0
    /\ ticks = 0

NextMain ==
    \/ MainGetChallenge
    \/ MainAttempt
    \/ Sleep
    \/ MainBranch
    \/ \E k \in MKeys, p \in Prices, io \in IOOutcomes : ProcessWrite(k, p, io)
    \/ ProcessReturn
    \/ \E io \in IOOutcomes : MainFlush(io)

SpecMain == InitMain /\ [][NextMain]_vars

\* ------------------------------------------------------------------ the worker pool
\* config.py:30
MAX_WORKERS == 10

\* what the pool's actions leave alone
seqVars == <<epc, attempt, wait, ret, caller, outcomes, waits, hist, now, ticks,
             cret, cop, ch, gcp, main, sel, pf>>

\* api_client.py:165-170: the cache check of get_historical_prices_concurrent
RECURSIVE HpcScan_NoFetch(_, _, _, _, _)
HpcScan_NoFetch(c, tickers, date, prices, need) ==
    IF tickers = <<>> THEN [cache |-> c, prices |-> prices, need_fetch |-> need]
    ELSE LET tk == Head(tickers)
             v == HistoricalLookup(c, tk, date)
             c1 == GetHistoricalPrice(c, tk, date)
         IN  IF v # NoneV
             THEN HpcScan_NoFetch(c1, Tail(tickers), date, Put(prices, tk, v[1]), need)
             ELSE HpcScan_NoFetch(c1, Tail(tickers), date, prices, need)

RECURSIVE HpcScan(_, _, _, _, _)
HpcScan(c, tickers, date, prices, need) ==
    IF tickers = <<>> THEN [cache |-> c, prices |-> prices, need_fetch |-> need]
    ELSE LET tk == Head(tickers)
             v == HistoricalLookup(c, tk, date)
             c1 == GetHistoricalPrice(c, tk, date)
         IN  IF v # NoneV
             THEN HpcScan(c1, Tail(tickers), date, Put(prices, tk, v[1]), need)
             ELSE HpcScan(c1, Tail(tickers), date, prices, Append(need, tk))

\* api_client.py:37,41,48,52,57: the counter the except clause increments
ExceptCounter(att, o) == IF ShouldRetry(att, o) THEN "retries" ELSE "failures"

\* api_client.py:176: the locals of one submitted get_historical_price call,
\* with the history of the calls and requests it made
NewTask(ticker) ==
    [pc |-> "queued", ticker |-> ticker, att |-> 0, reg |-> 0, res |-> NoneV,
     o |-> "none", data |-> 0, calls |-> 0, tries |-> 0]

\* api_client.py:161-178: the cache check and the submission of the misses
PoolBegin(tickers, date) ==
    /\ pool.pc = "idle"
    /\ LET r == HpcScan(cache, tickers, date, EmptyDict, <<>>)
       IN  /\ cache' = r.cache
           /\ pool' = [pool EXCEPT
                 !.pc = IF r.need_fetch = <<>> THEN "returned" ELSE "running",
                 !.tickers = tickers,
                 !.date = date,
                 !.prices = r.prices,
                 !.need_fetch = r.need_fetch,
                 !.hit0 = {tickers[i] : i \in {j \in 1..Len(tickers) :
                              HistoricalLookup(cache, tickers[j], date) # NoneV}},
                 !.ev.cache_hits = @ + r.cache.stats.cache_hits - cache.stats.cache_hits,
                 !.ev.cache_misses =
                     @ + r.cache.stats.cache_misses - cache.stats.cache_misses]
           /\ wk' = [i \in 1..Len(r.need_fetch) |-> NewTask(r.need_fetch[i])]
    /\ UNCHANGED <<stats, disk, seqVars>>

\* ThreadPoolExecutor: a pool thread takes the oldest queued call while fewer
\* than max_workers calls are running
PoolTake(i) ==
    /\ pool.pc = "running"
    /\ wk[i].pc = "queued"
    /\ \A j \in 1..(i - 1) : wk[j].pc # "queued"
    /\ Cardinality({j \in DOMAIN wk : wk[j].pc \notin {"queued", "done"}}) < MAX_WORKERS
    /\ wk' = [wk EXCEPT ![i].pc = "lookup"]
    /\ UNCHANGED <<pool, stats, cache, disk, seqVars>>

\* api_client.py:124, cache_manager.py:78-83: the lookup, up to the read of
\* the counter that "+= 1" is about to replace
WLookup(i) ==
    /\ wk[i].pc = "lookup"
    /\ LET v == HistoricalLookup(cache, wk[i].ticker, pool.date)
       IN  wk' = [wk EXCEPT ![i].pc = "count",
                            ![i].res = v,
                            ![i].reg = IF v # NoneV THEN cache.stats.cache_hits
                                       ELSE cache.stats.cache_misses]
    /\ UNCHANGED <<pool, stats, cache, disk, seqVars>>

\* cache_manager.py:80,83: the store of "+= 1"; api_client.py:125-143: a hit is
\* returned, a miss enters _api_call_with_retry
WCount(i) ==
    /\ wk[i].pc = "count"
    /\ IF wk[i].res # NoneV
       THEN /\ cache' = [cache EXCEPT !.stats.cache_hits = wk[i].reg + 1]
            /\ pool' = [pool EXCEPT !.ev.cache_hits = @ + 1]
            /\ wk' = [wk EXCEPT ![i].pc = "done"]
       ELSE /\ cache' = [cache EXCEPT !.stats.cache_misses = wk[i].reg + 1]
            /\ pool' = [pool EXCEPT !.ev.cache_misses = @ + 1]
            /\ wk' = [wk EXCEPT ![i].pc = "call", ![i].calls = @ + 1]
    /\ UNCHANGED <<stats, disk, seqVars>>

\* api_client.py:30: the read of "+= 1"
WReadCalls(i) ==
    /\ wk[i].pc = "call"
    /\ wk' = [wk EXCEPT ![i].pc = "called", ![i].reg = stats.total_calls]
    /\ UNCHANGED <<pool, stats, cache, disk, seqVars>>

\* api_client.py:30: the store of "+= 1"
WWriteCalls(i) ==
    /\ wk[i].pc = "called"
    /\ stats' = [stats EXCEPT !.total_calls = wk[i].reg + 1]
    /\ pool' = [pool EXCEPT !.ev.total_calls = @ + 1]
    /\ wk' = [wk EXCEPT ![i].pc = "func"]
    /\ UNCHANGED <<cache, disk, seqVars>>

\* api_client.py:31-57, 134-141: _fetch answers or raises; a failure goes to its
\* except clause, up to the read of the counter that "+= 1" is about to replace
WFunc(i, o, data) ==
    /\ wk[i].pc = "func"
    /\ wk' = [wk EXCEPT ![i].pc = IF o = "ok" THEN "store" ELSE "except",
                        ![i].o = o,
                        ![i].data = IF o = "ok" THEN data ELSE @,
                        ![i].tries = @ + 1,
                        ![i].reg = IF o = "ok" THEN @
                                   ELSE stats[ExceptCounter(wk[i].att, o)]]
    /\ UNCHANGED <<pool, stats, cache, disk, seqVars>>

\* api_client.py:37-42, 48-53, 57-58: the store of "+= 1", then the sleep and
\* the next pass of the loop, or return None
WExcept(i) ==
    /\ wk[i].pc = "except"
    /\ LET f == ExceptCounter(wk[i].att, wk[i].o)
       IN  /\ stats' = [stats EXCEPT ![f] = wk[i].reg + 1]
           /\ pool' = [pool EXCEPT !.ev[f] = @ + 1]
    /\ wk' = IF ShouldRetry(wk[i].att, wk[i].o)
             THEN [wk EXCEPT ![i].pc = "call", ![i].att = @ + 1]
             ELSE [wk EXCEPT ![i].pc = "done", ![i].res = NoneV]
    /\ UNCHANGED <<cache, disk, seqVars>>

\* api_client.py:145-153: an answer with a bar is written through and returned.
\* The assignment and the size test of set_historical_price are one step here:
\* in these batches the region stays below SaveEvery, so no save is due;
\* WWrite and WSizeCheck take them apart.
WStore(i, io) ==
    /\ wk[i].pc = "store"
    /\ IF wk[i].data # 0
       THEN /\ cache' = SetHistoricalPrice(cache, wk[i].ticker, pool.date, wk[i].data)
            /\ disk' = IF AutoSaveDue(cache') THEN DiskAfterSave(cache', disk, now, io)
                       ELSE disk
            /\ wk' = [wk EXCEPT ![i].pc = "done", ![i].res = Some(wk[i].data)]
       ELSE /\ wk' = [wk EXCEPT ![i].pc = "done", ![i].res = NoneV]
            /\ UNCHANGED <<cache, disk>>
    /\ UNCHANGED <<pool, stats, seqVars>>

\* api_client.py:180-187: as_completed hands over a finished future
PoolMerge(i) ==
    /\ pool.pc = "running"
    /\ wk[i].pc = "done"
    /\ i \notin pool.merged
    /\ pool' = [pool EXCEPT
          !.merged = @ \cup {i},
          !.prices = IF wk[i].res # NoneV THEN Put(@, wk[i].ticker, wk[i].res[1]) ELSE @]
    /\ UNCHANGED <<wk, stats, cache, disk, seqVars>>

\* api_client.py:180-189: whether the loop over as_completed has ended and the
\* with block has shut the pool down
BatchOver_QueueEmpty(p, w) == \A i \in DOMAIN w : w[i].pc # "queued"

BatchOver(p, w) == p.merged = DOMAIN w /\ \A i \in DOMAIN w : w[i].pc = "done"

\* api_client.py:189
PoolReturn ==
    /\ pool.pc = "running"
    /\ BatchOver(pool, wk)
    /\ pool' = [pool EXCEPT !.pc = "returned"]
    /\ UNCHANGED <<wk, stats, cache, disk, seqVars>>

\* the tickers of the sample batches, and the lists without a repeated ticker
PoolTickers == {AAPL, BRKB, V}

PoolLists ==
    {l \in UNION {[1..n -> PoolTickers] : n \in 1..3} :
        \A i \in 1..Len(l), j \in 1..Len(l) : i # j => l[i] # l[j]}

\* what earlier batches left in the cache: BRK.B always, so that a batch has at
\* most two misses
PoolCached == {{BRKB}, {BRKB, V}, PoolTickers}

\* an APIClient over a cache that holds a price of D1 for the tickers in P
InitPoolOver(P) ==
    /\ InitApi
    /\ InitGcp
    /\ InitRest
    /\ disk = [kind |-> "absent"]
    /\ cache = [NewCache EXCEPT !.historical_price_cache =
                    [k \in {<<t, D1>> : t \in P} |-> 1]]
    /\ cret = NoneV
    /\ cop = [op |-> "init"]
    /\ ch = [lookups |-> 0, valued |-> 0, missed |-> 0,
             lastSetCur |-> EmptyDict, lastSetHist |-> EmptyDict,
             saved |-> NoneV, restarts |-> 0, ops |-> 0,
             newHist |-> 0, autosaves |-> 0]
    /\ now = 0
    /\ ticks = 0

InitPool == \E P \in PoolCached : InitPoolOver(P)

\* the steps of a batch once it is submitted
PoolSteps ==
    \/ \E i \in DOMAIN wk : PoolTake(i)
    \/ \E i \in DOMAIN wk : WLookup(i)
    \/ \E i \in DOMAIN wk : WCount(i)
    \/ \E i \in DOMAIN wk : WReadCalls(i)
    \/ \E i \in DOMAIN wk : WWriteCalls(i)
    \/ \E i \in DOMAIN wk, o \in GcpOutcomes, data \in Prices \cup {0} : WFunc(i, o, data)
    \/ \E i \in DOMAIN wk : WExcept(i)
    \/ \E i \in DOMAIN wk, io \in IOOutcomes : WStore(i, io)
    \/ \E i \in DOMAIN wk : PoolMerge(i)
    \/ PoolReturn

NextPool ==
    \/ \E l \in PoolLists : PoolBegin(l, D1)
    \/ PoolSteps

SpecPool == InitPool /\ [][NextPool]_vars

\* every list of up to two tickers, the ones that name a ticker twice included
AnyLists == UNION {[1..n -> {AAPL, BRKB}] : n \in 1..2}

NextPoolAny ==
    \/ \E l \in AnyLists : PoolBegin(l, D1)
    \/ PoolSteps

SpecPoolAny == InitPool /\ [][NextPoolAny]_vars

\* ------------------------------------------------------------------ a batch wider than the pool
\* api_client.py:28-60: the counters after a call whose attempts end as outs
RECURSIVE StatsAfterRun(_, _, _)
StatsAfterRun(st, outs, att) ==
    IF outs = <<>> THEN st
    ELSE StatsAfterRun(StatsAfterAttempt(st, att, Head(outs)), Tail(outs), att + 1)

\* api_client.py:119-153: one get_historical_price call from its lookup to its
\* return, taken as a single step: the attempts of its fetch end as outs, the
\* last of them answering data
TaskRuns(i, outs, data) ==
    /\ wk[i].pc = "lookup"
    /\ LET tk == wk[i].ticker
           v == HistoricalLookup(cache, tk, pool.date)
           c1 == GetHistoricalPrice(cache, tk, pool.date)
           priced == outs[Len(outs)] = "ok" /\ data # 0
           st == IF v = NoneV THEN StatsAfterRun(stats, outs, 0) ELSE stats
       IN  /\ cache' = IF v = NoneV /\ priced
                       THEN SetHistoricalPrice(c1, tk, pool.date, data) ELSE c1
           /\ stats' = st
           /\ disk' = IF v = NoneV /\ priced /\ AutoSaveDue(cache')
                      THEN DiskAfterSave(cache', disk, now, "ok") ELSE disk
           /\ wk' = [wk EXCEPT
                 ![i].pc = "done",
                 ![i].res = IF v # NoneV THEN v ELSE IF priced THEN Some(data) ELSE NoneV,
                 ![i].o = IF v = NoneV THEN outs[Len(outs)] ELSE @,
                 ![i].att = IF v = NoneV THEN Len(outs) - 1 ELSE @,
                 ![i].data = IF v = NoneV /\ outs[Len(outs)] = "ok" THEN data ELSE @,
                 ![i].calls = IF v = NoneV THEN 1 ELSE @,
                 ![i].tries = IF v = NoneV THEN Len(outs) ELSE @]
           /\ pool' = [pool EXCEPT
                 !.ev.cache_hits = @ + c1.stats.cache_hits - cache.stats.cache_hits,
                 !.ev.cache_misses = @ + c1.stats.cache_misses - cache.stats.cache_misses,
                 !.ev.total_calls = @ + st.total_calls - stats.total_calls,
                 !.ev.retries = @ + st.retries - stats.retries,
                 !.ev.failures = @ + st.failures - stats.failures]
    /\ UNCHANGED seqVars

\* one more ticker than the pool has workers, none of them cached
WideList ==
    <<MSFT, GOOG, AMZN, <<"N", "V", "D", "A">>, <<"M", "E", "T", "A">>,
      <<"T", "S", "L", "A">>, <<"J", "N", "J">>, <<"W", "M", "T">>,
      <<"J", "P", "M">>, <<"M", "A">>, <<"P", "G">>>>

\* how the fetch of one call can end in the wide batch: the first ticker's may
\* fail, the others answer at once
WideRuns(i) == IF i = 1 THEN {<<"ok">>, <<"Exception">>} ELSE {<<"ok">>}

InitWide == InitPoolOver({})

\* the steps of the submitted batch. The caller, blocked in as_completed,
\* collects a finished future before the next call ends: collecting changes
\* only the caller's locals, so every other order of these steps gives the same
\* states to the workers.
WideSteps ==
    \/ \E i \in DOMAIN wk : PoolTake(i)
    \/ \E i \in DOMAIN wk : \E outs \in WideRuns(i) :
          /\ \A j \in DOMAIN wk : wk[j].pc = "done" => j \in pool.merged
          /\ TaskRuns(i, outs, 1)
    \/ \E i \in DOMAIN wk : PoolMerge(i)
    \/ PoolReturn

NextWide ==
    \/ PoolBegin(WideList, D1)
    \/ WideSteps

\* the pool's threads and the caller's loop are scheduled as long as they can
\* run, and every call of get_historical_price ends
SpecWide == InitWide /\ [][NextWide]_vars /\ WF_vars(WideSteps)

\* ------------------------------------------------------------------ select_strategy
\* config.py:23-27, in the dict's order
STRATEGY_THRESHOLDS ==
    <<[strategy |-> "diversification", min_val |-> 0, max_val |-> 30],
      [strategy |-> "preference_weighted", min_val |-> 31, max_val |-> 60],
      [strategy |-> "high_conviction", min_val |-> 61, max_val |-> 100]>>

\* strategies.py:26
InBand_Exclusive(band, strength) == band.min_val < strength /\ strength < band.max_val

InBand(band, strength) == band.min_val <= strength /\ strength <= band.max_val

\* strategies.py:25-29: the first band that holds the strength, or the fallback
RECURSIVE FirstBand(_, _)
FirstBand(bands, strength) ==
    IF bands = <<>> THEN "diversification"
    ELSE IF InBand(Head(bands), strength) THEN Head(bands).strategy
    ELSE FirstBand(Tail(bands), strength)

\* strategies.py:14-29
select_strategy(context) == FirstBand(STRATEGY_THRESHOLDS, context.preference_strength)

\* the client contexts of the sample runs: every strength from below the bands
\* to above them, with two budgets
Contexts ==
    [preference_strength : (100 - MaxStrength)..MaxStrength, budget : {100, 1000}]

\* main.py:46: process_challenge selects the strategy for a context
SelectStrategy(context) ==
    /\ sel' = Some([context |-> context, strategy |-> select_strategy(context)])
    /\ UNCHANGED <<now, ticks, apiVars, cacheVars, gcp, main, pool, wk, pf>>

InitSelect ==
    /\ InitApi
    /\ InitCache
    /\ InitGcp
    /\ InitRest
    /\ now = 0
    /\ ticks = 0

NextSelect == \E c \in Contexts : SelectStrategy(c)

SpecSelect == InitSelect /\ [][NextSelect]_vars

\* ------------------------------------------------------------------ strategies.py
\* Budgets and prices are whole amounts of money. The code computes with
\* binary floating point; with whole budgets and prices every quotient it
\* floors and every comparison it makes is either exact or some hundredths of
\* a unit away from the boundary, far more than the rounding error, so the
\* results are those of exact arithmetic, done here on hundredths.

\* config.py:19, in hundredths
INITIAL_BUDGET_USAGE == 96

\* config.py:20, in hundredths
TARGET_BUDGET_USAGE == 98

\* config.py:33-85. No strategy takes a ticker apart, so a ticker is an atom here
STOCKS ==
    <<[ticker |-> "AAPL", sector |-> "Technology"],
      [ticker |-> "MSFT", sector |-> "Technology"],
      [ticker |-> "GOOG", sector |-> "Technology"],
      [ticker |-> "AMZN", sector |-> "Consumer Cyclical"],
      [ticker |-> "NVDA", sector |-> "Technology"],
      [ticker |-> "META", sector |-> "Communication Services"],
      [ticker |-> "TSLA", sector |-> "Consumer Cyclical"],
      [ticker |-> "BRK.B", sector |-> "Financial Services"],
      [ticker |-> "V", sector |-> "Financial Services"],
      [ticker |-> "JNJ", sector |-> "Healthcare"],
      [ticker |-> "WMT", sector |-> "Consumer Defensive"],
      [ticker |-> "JPM", sector |-> "Financial Services"],
      [ticker |-> "MA", sector |-> "Financial Services"],
      [ticker |-> "PG", sector |-> "Consumer Defensive"],
      [ticker |-> "UNH", sector |-> "Healthcare"],
      [ticker |-> "HD", sector |-> "Consumer Cyclical"],
      [ticker |-> "CVX", sector |-> "Energy"],
      [ticker |-> "MRK", sector |-> "Healthcare"],
      [ticker |-> "ABBV", sector |-> "Healthcare"],
      [ticker |-> "KO", sector |-> "Consumer Defensive"],
      [ticker |-> "PEP", sector |-> "Consumer Defensive"],
      [ticker |-> "AVGO", sector |-> "Technology"],
      [ticker |-> "COST", sector |-> "Consumer Defensive"],
      [ticker |-> "MCD", sector |-> "Consumer Cyclical"],
      [ticker |-> "TMO", sector |-> "Healthcare"],
      [ticker |-> "CSCO", sector |-> "Technology"],
      [ticker |-> "ACN", sector |-> "Technology"],
      [ticker |-> "DHR", sector |-> "Healthcare"],
      [ticker |-> "VZ", sector |-> "Communication Services"],
      [ticker |-> "ADBE", sector |-> "Technology"],
      [ticker |-> "NFLX", sector |-> "Communication Services"],
      [ticker |-> "NKE", sector |-> "Consumer Cyclical"],
      [ticker |-> "CRM", sector |-> "Technology"],
      [ticker |-> "ORCL", sector |-> "Technology"],
      [ticker |-> "ABT", sector |-> "Healthcare"],
      [ticker |-> "PFE", sector |-> "Healthcare"],
      [ticker |-> "INTC", sector |-> "Technology"],
      [ticker |-> "DIS", sector |-> "Communication Services"],
      [ticker |-> "CMCSA", sector |-> "Communication Services"],
      [ticker |-> "AMD", sector |-> "Technology"],
      [ticker |-> "T", sector |-> "Communication Services"],
      [ticker |-> "COP", sector |-> "Energy"],
      [ticker |-> "NEE", sector |-> "Utilities"],
      [ticker |-> "UPS", sector |-> "Industrials"],
      [ticker |-> "IBM", sector |-> "Technology"],
      [ticker |-> "BA", sector |-> "Industrials"],
      [ticker |-> "CAT", sector |-> "Industrials"],
      [ticker |-> "GE", sector |-> "Industrials"],
      [ticker |-> "HON", sector |-> "Industrials"],
      [ticker |-> "MMM", sector |-> "Industrials"],
      [ticker |-> "DE", sector |-> "Industrials"]>>

\* strategies.py:93-96, 142-146, 157-166, 213-217, 228: int(per / price), where
\* per is pct hundredths of the budget divided over n tickers
Shares_RoundUp(pct, budget, n, price) ==
    (budget * pct + 100 * n * price - 1) \div (100 * n * price)

Shares(pct, budget, n, price) == (budget * pct) \div (100 * n * price)

\* strategies.py:58-62, 124-128, 195-199: the stocks that are in no avoided
\* sector and have a price, each with its price, in the order of STOCKS
Candidates_PreferredFirst(context, prices) ==
    LET kept == SelectSeq(STOCKS, LAMBDA s :
                    /\ (s.sector \notin context.avoided_sectors
                        \/ s.sector \in context.preferred_sectors)
                    /\ s.ticker \in DOMAIN prices)
    IN  [i \in 1..Len(kept) |->
            [ticker |-> kept[i].ticker, sector |-> kept[i].sector,
             price |-> prices[kept[i].ticker]]]

Candidates(context, prices) ==
    LET kept == SelectSeq(STOCKS, LAMBDA s :
                    /\ s.sector \notin context.avoided_sectors
                    /\ s.ticker \in DOMAIN prices)
    IN  [i \in 1..Len(kept) |->
            [ticker |-> kept[i].ticker, sector |-> kept[i].sector,
             price |-> prices[kept[i].ticker]]]

\* list.sort(key=price) and sorted(key=price): ascending and stable
InsertByPrice_Front(sorted, x) == <<x>> \o sorted

RECURSIVE InsertByPrice(_, _)
InsertByPrice(sorted, x) ==
    IF sorted = <<>> THEN <<x>>
    ELSE IF x.price < Head(sorted).price THEN <<x>> \o sorted
    ELSE <<Head(sorted)>> \o InsertByPrice(Tail(sorted), x)

RECURSIVE SortByPrice(_)
SortByPrice(s) ==
    IF s = <<>> THEN <<>>
    ELSE InsertByPrice(SortByPrice(SubSeq(s, 1, Len(s) - 1)), s[Len(s)])

\* strategies.py:78-86: the selection loop of _diversification
RECURSIVE SelectCapped_NoCap(_, _, _, _)
SelectCapped_NoCap(candidates, selected, target_stocks, max_per_sector) ==
    IF candidates = <<>> THEN selected
    ELSE SelectCapped_NoCap(Tail(candidates), Append(selected, Head(candidates)),
                            target_stocks, max_per_sector)

RECURSIVE SelectCapped(_, _, _, _)
SelectCapped(candidates, selected, target_stocks, max_per_sector) ==
    IF candidates = <<>> \/ Len(selected) >= target_stocks THEN selected
    ELSE LET stock == Head(candidates)
             count == Cardinality({i \in 1..Len(selected) :
                                      selected[i].sector = stock.sector})
         IN  SelectCapped(Tail(candidates),
                          IF count < max_per_sector THEN Append(selected, stock)
                          ELSE selected,
                          target_stocks, max_per_sector)

\* strategies.py:67-73
TargetStocks(budget) == IF budget < 100 THEN 3 ELSE IF budget < 500 THEN 5 ELSE 7

\* strategies.py:77
MaxPerSector(target_stocks) ==
    IF target_stocks \div 2 > 2 THEN target_stocks \div 2 ELSE 2

\* strategies.py:52-86: the list "selected" of _diversification
DiversificationSelected(context, prices) ==
    SelectCapped(SortByPrice(Candidates(context, prices)), <<>>,
                 TargetStocks(context.budget),
                 MaxPerSector(TargetStocks(context.budget)))

\* strategies.py:92-101, 144-151, 215-222: the positions bought of the stocks,
\* each with pct hundredths of the budget divided over n; none for no share
Positions_KeepAll(stocks, pct, budget, n) ==
    [i \in 1..Len(stocks) |->
        [ticker |-> stocks[i].ticker,
         shares |-> Shares(pct, budget, n, stocks[i].price)]]

Positions(stocks, pct, budget, n) ==
    SelectSeq([i \in 1..Len(stocks) |->
                  [ticker |-> stocks[i].ticker,
                   shares |-> Shares(pct, budget, n, stocks[i].price)]],
              LAMBDA inv : inv.shares > 0)

\* strategies.py:47-103
diversification(context, prices) ==
    LET selected == DiversificationSelected(context, prices)
    IN  Positions(selected, INITIAL_BUDGET_USAGE, context.budget, Len(selected))

\* strategies.py:120-136, 191-207: the two sorted pools
Pools(context, prices) ==
    LET all == Candidates(context, prices)
    IN  [preferred_stocks |->
            SortByPrice(SelectSeq(all, LAMBDA s :
                            s.sector \in context.preferred_sectors)),
         other_stocks |->
            SortByPrice(SelectSeq(all, LAMBDA s :
                            s.sector \notin context.preferred_sectors))]

\* strategies.py:139-151, 210-222: the first "most" stocks of the preferred pool
PreferredSelected(preferred_stocks, most, pct, budget) ==
    LET target_preferred ==
            IF Len(preferred_stocks) < most THEN Len(preferred_stocks) ELSE most
    IN  Positions(SubSeq(preferred_stocks, 1, target_preferred), pct, budget,
                  target_preferred)

\* strategies.py:159-172: the loop over the other pool of _preference_weighted;
\* sectors is the key set of sector_counts
RECURSIVE PickOthers_AnySector(_, _, _, _, _)
PickOthers_AnySector(other_stocks, other_selected, sectors, target_other, budget) ==
    IF other_stocks = <<>> \/ Len(other_selected) >= target_other
    THEN other_selected
    ELSE LET stock == Head(other_stocks)
             shares == Shares(36, budget, target_other, stock.price)
         IN  PickOthers_AnySector(Tail(other_stocks),
                        IF shares > 0
                        THEN Append(other_selected,
                                    [ticker |-> stock.ticker, shares |-> shares])
                        ELSE other_selected,
                        sectors, target_other, budget)

RECURSIVE PickOthers(_, _, _, _, _)
PickOthers(other_stocks, other_selected, sectors, target_other, budget) ==
    IF other_stocks = <<>> \/ Len(other_selected) >= target_other
    THEN other_selected
    ELSE LET stock == Head(other_stocks)
             shares == Shares(36, budget, target_other, stock.price)
             take == stock.sector \notin sectors /\ shares > 0
         IN  PickOthers(Tail(other_stocks),
                        IF take
                        THEN Append(other_selected,
                                    [ticker |-> stock.ticker, shares |-> shares])
                        ELSE other_selected,
                        IF take THEN sectors \cup {stock.sector} ELSE sectors,
                        target_other, budget)

\* strategies.py:106-174
preference_weighted(context, prices) ==
    LET p == Pools(context, prices)
        target_other == IF Len(p.other_stocks) < 3 THEN Len(p.other_stocks) ELSE 3
    IN  PreferredSelected(p.preferred_stocks, 3, 60, context.budget)
        \o PickOthers(p.other_stocks, <<>>, {}, target_other, context.budget)

\* strategies.py:177-234
high_conviction_DearestOther(context, prices) ==
    LET p == Pools(context, prices)
    IN  PreferredSelected(p.preferred_stocks, 4, 80, context.budget)
        \o (IF p.other_stocks # <<>> /\ context.budget * 16 > 0
            THEN Positions(<<p.other_stocks[Len(p.other_stocks)]>>, 16,
                           context.budget, 1)
            ELSE <<>>)

high_conviction(context, prices) ==
    LET p == Pools(context, prices)
    IN  PreferredSelected(p.preferred_stocks, 4, 80, context.budget)
        \o (IF p.other_stocks # <<>> /\ context.budget * 16 > 0
            THEN Positions(<<p.other_stocks[1]>>, 16, context.budget, 1)
            ELSE <<>>)

\* strategies.py:32-44
build_portfolio(strategy, context, prices) ==
    IF strategy = "diversification" THEN diversification(context, prices)
    ELSE IF strategy = "preference_weighted" THEN preference_weighted(context, prices)
    ELSE IF strategy = "high_conviction" THEN high_conviction(context, prices)
    ELSE diversification(context, prices)

\* ------------------------------------------------------------------ portfolio_validator.py
\* portfolio_validator.py:23-34: the loop of validate_portfolio; the first
\* position without a price or without a positive count ends it
RECURSIVE CostOrError(_, _, _)
CostOrError(portfolio, prices, total_cost) ==
    IF portfolio = <<>> THEN [error |-> "", total_cost |-> total_cost]
    ELSE LET inv == Head(portfolio)
         IN  IF inv.ticker \notin DOMAIN prices
             THEN [error |-> "Missing price", total_cost |-> total_cost]
             ELSE IF inv.shares <= 0
             THEN [error |-> "Invalid share count", total_cost |-> total_cost]
             ELSE CostOrError(Tail(portfolio), prices,
                              total_cost + inv.shares * prices[inv.ticker])

\* portfolio_validator.py:41-42: (total_cost / budget) * 100 < 85
LowUsage_Inclusive(total_cost, budget) == 100 * total_cost <= 85 * budget

LowUsage(total_cost, budget) == 100 * total_cost < 85 * budget

\* portfolio_validator.py:14-45; a message is the fixed part of its text
validate_portfolio_CostOnly(portfolio, budget, prices) ==
    LET cost == CostOrError(SelectSeq(portfolio, LAMBDA inv :
                                inv.ticker \in DOMAIN prices /\ inv.shares > 0),
                            prices, 0).total_cost
    IN  IF portfolio = <<>>
        THEN [is_valid |-> FALSE, message |-> "Portfolio is empty"]
        ELSE IF 100 * cost > 101 * budget
        THEN [is_valid |-> FALSE, message |-> "Budget breach"]
        ELSE IF LowUsage(cost, budget)
        THEN [is_valid |-> TRUE, message |-> "WARNING: Low budget usage"]
        ELSE [is_valid |-> TRUE, message |-> "Valid portfolio"]

validate_portfolio(portfolio, budget, prices) ==
    LET r == CostOrError(portfolio, prices, 0)
    IN  IF portfolio = <<>>
        THEN [is_valid |-> FALSE, message |-> "Portfolio is empty"]
        ELSE IF r.error # ""
        THEN [is_valid |-> FALSE, message |-> r.error]
        ELSE IF 100 * r.total_cost > 101 * budget
        THEN [is_valid |-> FALSE, message |-> "Budget breach"]
        ELSE IF LowUsage(r.total_cost, budget)
        THEN [is_valid |-> TRUE, message |-> "WARNING: Low budget usage"]
        ELSE [is_valid |-> TRUE, message |-> "Valid portfolio"]

\* portfolio_validator.py:83: min(prices.values())
MinPrice(prices) ==
    CHOOSE m \in {prices[t] : t \in DOMAIN prices} :
        \A t \in DOMAIN prices : m <= prices[t]

\* portfolio_validator.py:68-84: the loop of optimize_budget_usage; remaining
\* is in hundredths
RECURSIVE TopUp_KeepRemaining(_, _, _, _)
TopUp_KeepRemaining(sorted_portfolio, optimized, remaining, prices) ==
    IF sorted_portfolio = <<>> THEN optimized
    ELSE LET ticker == Head(sorted_portfolio).ticker
             price == prices[ticker]
             additional_shares == remaining \div (100 * price)
             first == CHOOSE i \in 1..Len(optimized) :
                         /\ optimized[i].ticker = ticker
                         /\ \A j \in 1..(i - 1) : optimized[j].ticker # ticker
             bought == IF additional_shares > 0
                       THEN [optimized EXCEPT ![first].shares = @ + additional_shares]
                       ELSE optimized
         IN  IF remaining < 100 * MinPrice(prices) THEN bought
             ELSE TopUp_KeepRemaining(Tail(sorted_portfolio), bought, remaining, prices)

RECURSIVE TopUp(_, _, _, _)
TopUp(sorted_portfolio, optimized, remaining, prices) ==
    IF sorted_portfolio = <<>> THEN optimized
    ELSE LET ticker == Head(sorted_portfolio).ticker
             price == prices[ticker]
             additional_shares == remaining \div (100 * price)
             first == CHOOSE i \in 1..Len(optimized) :
                         /\ optimized[i].ticker = ticker
                         /\ \A j \in 1..(i - 1) : optimized[j].ticker # ticker
             bought == IF additional_shares > 0
                       THEN [optimized EXCEPT ![first].shares = @ + additional_shares]
                       ELSE optimized
             left == IF additional_shares > 0
                     THEN remaining - additional_shares * 100 * price
                     ELSE remaining
         IN  IF left < 100 * MinPrice(prices) THEN bought
             ELSE TopUp(Tail(sorted_portfolio), bought, left, prices)

\* portfolio_validator.py:57
CurrentCost_FirstOnly(portfolio, prices) ==
    IF portfolio = <<>> THEN 0
    ELSE portfolio[1].shares * prices[portfolio[1].ticker]

CurrentCost(portfolio, prices) ==
    LET RECURSIVE sum(_)
        sum(i) == IF i = 0 THEN 0
                  ELSE sum(i - 1) + portfolio[i].shares * prices[portfolio[i].ticker]
    IN  sum(Len(portfolio))

\* portfolio_validator.py:48-86: the list returned, or the KeyError of line 57
\* for a position whose ticker has no price
optimize_budget_usage_AsGiven(portfolio, budget, prices) ==
    IF \E i \in 1..Len(portfolio) : portfolio[i].ticker \notin DOMAIN prices
    THEN [raised |-> "KeyError", portfolio |-> <<>>]
    ELSE [raised |-> "", portfolio |-> portfolio]

optimize_budget_usage(portfolio, budget, prices) ==
    IF portfolio = <<>> THEN [raised |-> "", portfolio |-> portfolio]
    ELSE IF \E i \in 1..Len(portfolio) : portfolio[i].ticker \notin DOMAIN prices
    THEN [raised |-> "KeyError", portfolio |-> <<>>]
    ELSE LET remaining == TARGET_BUDGET_USAGE * budget
                          - 100 * CurrentCost(portfolio, prices)
             keyed == SortByPrice([i \in 1..Len(portfolio) |->
                          [ticker |-> portfolio[i].ticker,
                           price |-> prices[portfolio[i].ticker]]])
         IN  IF remaining < 0 THEN [raised |-> "", portfolio |-> portfolio]
             ELSE [raised |-> "",
                   portfolio |-> TopUp(keyed, portfolio, remaining, prices)]

\* ------------------------------------------------------------------ process_challenge, steps 5 to 7
\* the price map holds a quote for some of the first MaxQuoted stocks
MaxQuoted == 8

\* the price lists of the sample runs: rising and falling along STOCKS, and
\* two prices in turn, so that stocks tie
Quote(pattern, i) ==
    IF pattern = "rising" THEN 10 * i
    ELSE IF pattern = "falling" THEN 10 * (MaxQuoted + 1 - i)
    ELSE IF i % 2 = 1 THEN 50 ELSE 20

PriceMap(I, pattern) ==
    [t \in {STOCKS[i].ticker : i \in I} |->
        Quote(pattern, CHOOSE i \in I : STOCKS[i].ticker = t)]

PriceMaps ==
    {PriceMap(I, pattern) :
        I \in SUBSET (1..MaxQuoted), pattern \in {"rising", "falling", "level"}}

\* the contexts of the sample runs: a budget for each target count, and
\* sectors that are preferred, avoided, or both
AllocContexts ==
    [budget : {60, 300, 1000},
     preferred_sectors : {{}, {"Technology"}, {"Technology", "Consumer Cyclical"}},
     avoided_sectors : {{}, {"Technology"}, {"Consumer Cyclical"}}]

\* the three tags and one that build_portfolio does not know
StrategyTags ==
    {"diversification", "preference_weighted", "high_conviction", "balanced"}

\* the locals of process_challenge from step 5 on
NewCall(pc, strategy, context, prices, portfolio) ==
    [pc |-> pc, strategy |-> strategy, context |-> context, prices |-> prices,
     portfolio |-> portfolio, optimized_portfolio |-> <<>>, raised |-> "",
     is_valid |-> FALSE, message |-> ""]

\* main.py:60-65
BuildPortfolio ==
    /\ pf.pc = "build"
    /\ LET portfolio == build_portfolio(pf.strategy, pf.context, pf.prices)
       IN  pf' = [pf EXCEPT !.portfolio = portfolio,
                            !.pc = IF portfolio = <<>> THEN "skipped" ELSE "validate"]
    /\ UNCHANGED <<now, ticks, apiVars, cacheVars, gcp, main, pool, wk, sel>>

\* main.py:68-74 for the built portfolio, main.py:80-81 for the optimized one
Validate ==
    /\ pf.pc \in {"validate", "revalidate"}
    /\ LET r == validate_portfolio(
                    IF pf.pc = "validate" THEN pf.portfolio
                    ELSE pf.optimized_portfolio,
                    pf.context.budget, pf.prices)
       IN  pf' = [pf EXCEPT !.is_valid = r.is_valid, !.message = r.message,
                            !.pc = IF pf.pc = "revalidate" THEN "display"
                                   ELSE IF r.is_valid THEN "optimize"
                                   ELSE "skipped"]
    /\ UNCHANGED <<now, ticks, apiVars, cacheVars, gcp, main, pool, wk, sel>>

\* main.py:77
Optimize ==
    /\ pf.pc = "optimize"
    /\ LET r == optimize_budget_usage(pf.portfolio, pf.context.budget, pf.prices)
       IN  pf' = [pf EXCEPT !.optimized_portfolio = r.portfolio,
                            !.raised = r.raised,
                            !.pc = IF r.raised = "" THEN "revalidate" ELSE "raised"]
    /\ UNCHANGED <<now, ticks, apiVars, cacheVars, gcp, main, pool, wk, sel>>

InitAlloc ==
    /\ InitApi
    /\ InitCache
    /\ InitGcp
    /\ main = MainOff
    /\ pool = PoolIdle
    /\ wk = <<>>
    /\ sel = NoneV
    /\ now = 0
    /\ ticks = 0
    /\ \E strategy \in StrategyTags, context \in AllocContexts, prices \in PriceMaps :
          pf = NewCall("build", strategy, context, prices, <<>>)

NextAlloc == BuildPortfolio \/ Validate \/ Optimize

SpecAlloc == InitAlloc /\ [][NextAlloc]_vars

\* ------------------------------------------------------------------ the validator on any allocation
\* a list has at most MaxPositions positions, a position at most MaxShares shares
MaxPositions == 2
MaxShares == 5

\* the quotes of the sample calls; "GOOGL" is no stock of the universe
FullQuotes == [t \in {"AAPL", "MSFT", "GOOGL"} |->
                  IF t = "AAPL" THEN 17 ELSE IF t = "MSFT" THEN 50 ELSE 51]

QuoteMaps == {[t \in D |-> FullQuotes[t]] : D \in SUBSET (DOMAIN FullQuotes)}

\* lists of positions, also with a ticker twice and with counts that are not
\* positive
Allocations ==
    UNION {[1..n -> [ticker : DOMAIN FullQuotes, shares : (-1)..MaxShares]] :
              n \in 0..MaxPositions}

\* portfolio_validator.py:14-45, called on its own
ValidateAny ==
    /\ pf.pc = "call"
    /\ LET r == validate_portfolio(pf.portfolio, pf.context.budget, pf.prices)
       IN  pf' = [pf EXCEPT !.is_valid = r.is_valid, !.message = r.message,
                            !.pc = "validated"]
    /\ UNCHANGED <<now, ticks, apiVars, cacheVars, gcp, main, pool, wk, sel>>

\* portfolio_validator.py:48-86, called on its own
OptimizeAny ==
    /\ pf.pc = "call"
    /\ LET r == optimize_budget_usage(pf.portfolio, pf.context.budget, pf.prices)
       IN  pf' = [pf EXCEPT !.optimized_portfolio = r.portfolio,
                            !.raised = r.raised, !.pc = "optimized"]
    /\ UNCHANGED <<now, ticks, apiVars, cacheVars, gcp, main, pool, wk, sel>>

InitValidator ==
    /\ InitApi
    /\ InitCache
    /\ InitGcp
    /\ main = MainOff
    /\ pool = PoolIdle
    /\ wk = <<>>
    /\ sel = NoneV
    /\ now = 0
    /\ ticks = 0
    /\ \E budget \in {100, 200}, prices \in QuoteMaps, portfolio \in Allocations :
          pf = NewCall("call", "",
                       [budget |-> budget, preferred_sectors |-> {},
                        avoided_sectors |-> {}],
                       prices, portfolio)

NextValidator == ValidateAny \/ OptimizeAny

SpecValidator == InitValidator /\ [][NextValidator]_vars

\* ------------------------------------------------------------------ optimize_budget_usage, step by step
\* portfolio_validator.py:69-81: one pass of the loop for the entry of a
\* ticker; remaining is in hundredths, added is what the pass bought
Visit_NoCharge(ticker, optimized, remaining, prices) ==
    LET additional_shares == remaining \div (100 * prices[ticker])
        first == CHOOSE i \in 1..Len(optimized) :
                    /\ optimized[i].ticker = ticker
                    /\ \A j \in 1..(i - 1) : optimized[j].ticker # ticker
    IN  IF additional_shares > 0
        THEN [optimized |-> [optimized EXCEPT ![first].shares = @ + additional_shares],
              remaining |-> remaining, added |-> additional_shares]
        ELSE [optimized |-> optimized, remaining |-> remaining, added |-> 0]

Visit(ticker, optimized, remaining, prices) ==
    LET additional_shares == remaining \div (100 * prices[ticker])
        first == CHOOSE i \in 1..Len(optimized) :
                    /\ optimized[i].ticker = ticker
                    /\ \A j \in 1..(i - 1) : optimized[j].ticker # ticker
    IN  IF additional_shares > 0
        THEN [optimized |-> [optimized EXCEPT ![first].shares = @ + additional_shares],
              remaining |-> remaining - additional_shares * 100 * prices[ticker],
              added |-> additional_shares]
        ELSE [optimized |-> optimized, remaining |-> remaining, added |-> 0]

\* the locals of a call of optimize_budget_usage; visits is the history of
\* the loop: the ticker of each pass, remaining before and after, shares added
NewLoop(budget, prices, portfolio) ==
    [pc |-> "call", context |-> [budget |-> budget], prices |-> prices,
     portfolio |-> portfolio, optimized_portfolio |-> <<>>, raised |-> "",
     sorted_portfolio |-> <<>>, remaining |-> 0, visits |-> <<>>]

\* portfolio_validator.py:53-65: up to the loop
OptimizeBegin ==
    /\ pf.pc = "call"
    /\ LET remaining == TARGET_BUDGET_USAGE * pf.context.budget
                        - 100 * CurrentCost(pf.portfolio, pf.prices)
       IN  pf' = IF pf.portfolio = <<>>
                 THEN [pf EXCEPT !.pc = "returned"]
                 ELSE IF \E i \in 1..Len(pf.portfolio) :
                            pf.portfolio[i].ticker \notin DOMAIN pf.prices
                 THEN [pf EXCEPT !.pc = "raised", !.raised = "KeyError"]
                 ELSE IF remaining < 0
                 THEN [pf EXCEPT !.pc = "returned",
                                 !.optimized_portfolio = pf.portfolio,
                                 !.remaining = remaining]
                 ELSE [pf EXCEPT !.pc = "loop",
                                 !.optimized_portfolio = pf.portfolio,
                                 !.remaining = remaining,
                                 !.sorted_portfolio =
                                     SortByPrice([i \in 1..Len(pf.portfolio) |->
                                         [ticker |-> pf.portfolio[i].ticker,
                                          price |-> pf.prices[pf.portfolio[i].ticker]]])]
    /\ UNCHANGED <<now, ticks, apiVars, cacheVars, gcp, main, pool, wk, sel>>

\* portfolio_validator.py:68-86: one pass of the loop, and the return after
\* the break or after the last entry
OptimizeVisit ==
    /\ pf.pc = "loop"
    /\ LET ticker == Head(pf.sorted_portfolio).ticker
           r == Visit(ticker, pf.optimized_portfolio, pf.remaining, pf.prices)
       IN  pf' = [pf EXCEPT
                     !.optimized_portfolio = r.optimized,
                     !.remaining = r.remaining,
                     !.sorted_portfolio = Tail(@),
                     !.visits = Append(@, [ticker |-> ticker,
                                           before |-> pf.remaining,
                                           added |-> r.added,
                                           after |-> r.remaining]),
                     !.pc = IF r.remaining < 100 * MinPrice(pf.prices)
                               \/ Tail(pf.sorted_portfolio) = <<>>
                            THEN "returned" ELSE "loop"]
    /\ UNCHANGED <<now, ticks, apiVars, cacheVars, gcp, main, pool, wk, sel>>

InitTopUp ==
    /\ InitApi
    /\ InitCache
    /\ InitGcp
    /\ main = MainOff
    /\ pool = PoolIdle
    /\ wk = <<>>
    /\ sel = NoneV
    /\ now = 0
    /\ ticks = 0
    /\ \E budget \in {100, 200}, prices \in QuoteMaps, portfolio \in Allocations :
          pf = NewLoop(budget, prices, portfolio)

NextTopUp == OptimizeBegin \/ OptimizeVisit

SpecTopUp == InitTopUp /\ [][NextTopUp]_vars

\* ------------------------------------------------------------------ process_challenge, steps 5 to 11
\* the price map holds a quote for some of the first MaxListed stocks
MaxListed == 4

\* the opening prices the history endpoint answers with; 0 is a price the
\* batch returns (it is not None) and the payload loop takes for missing
Opens == {0, 3}

\* what get_historical_prices_concurrent can return for a list of tickers:
\* a price for each ticker whose lookup or fetch gave one, api_client.py:161-189
HistoricalAnswers(tickers) ==
    UNION {[got -> Opens] : got \in SUBSET {tickers[i] : i \in 1..Len(tickers)}}

\* main.py:94-102: the payload keeps an entry when its historical price is
\* there and not falsy, with the optimized count and the historical price
Investments_KeepUnpriced(optimized_portfolio, historical_prices) ==
    [i \in 1..Len(optimized_portfolio) |->
        [ticker |-> optimized_portfolio[i].ticker,
         shares |-> optimized_portfolio[i].shares,
         price |-> IF optimized_portfolio[i].ticker \in DOMAIN historical_prices
                   THEN historical_prices[optimized_portfolio[i].ticker]
                   ELSE 0]]

Investments(optimized_portfolio, historical_prices) ==
    LET kept == SelectSeq(optimized_portfolio,
                    LAMBDA inv : /\ inv.ticker \in DOMAIN historical_prices
                                 /\ historical_prices[inv.ticker] # 0)
    IN  [i \in 1..Len(kept) |->
            [ticker |-> kept[i].ticker, shares |-> kept[i].shares,
             price |-> historical_prices[kept[i].ticker]]]

\* the locals of process_challenge from step 5 to its return, the batches it
\* asked for, what it posted and what the tracker was told
NewChallenge(strategy, context, prices) ==
    [pc |-> "build", strategy |-> strategy, context |-> context, prices |-> prices,
     portfolio |-> <<>>, optimized_portfolio |-> <<>>, raised |-> "",
     is_valid |-> FALSE, message |-> "",
     historical_prices |-> <<>>, batches |-> 0, investments |-> <<>>,
     posted |-> <<>>, result |-> "", skip_reasons |-> <<>>, returned |-> ""]

\* main.py:60-65
ChallengeBuild ==
    /\ pf.pc = "build"
    /\ LET portfolio == build_portfolio(pf.strategy, pf.context, pf.prices)
       IN  pf' = IF portfolio = <<>>
                 THEN [pf EXCEPT !.portfolio = portfolio, !.pc = "skipped",
                                 !.skip_reasons = Append(@, "Failed to build portfolio"),
                                 !.returned = "False"]
                 ELSE [pf EXCEPT !.portfolio = portfolio, !.pc = "validate"]
    /\ UNCHANGED <<now, ticks, apiVars, cacheVars, gcp, main, pool, wk, sel>>

\* main.py:68-74
ChallengeValidate ==
    /\ pf.pc = "validate"
    /\ LET r == validate_portfolio(pf.portfolio, pf.context.budget, pf.prices)
       IN  pf' = IF r.is_valid
                 THEN [pf EXCEPT !.is_valid = TRUE, !.message = r.message,
                                 !.pc = "optimize"]
                 ELSE [pf EXCEPT !.is_valid = FALSE, !.message = r.message,
                                 !.pc = "skipped",
                                 !.skip_reasons = Append(@, "Portfolio validation failed"),
                                 !.returned = "False"]
    /\ UNCHANGED <<now, ticks, apiVars, cacheVars, gcp, main, pool, wk, sel>>

\* main.py:77-81: the top-up and the second validation, whose result is
\* printed and not tested
ChallengeOptimize ==
    /\ pf.pc = "optimize"
    /\ LET o == optimize_budget_usage(pf.portfolio, pf.context.budget, pf.prices)
       IN  IF o.raised # ""
           THEN pf' = [pf EXCEPT !.raised = o.raised, !.pc = "raised"]
           ELSE LET r == validate_portfolio(o.portfolio, pf.context.budget, pf.prices)
                IN  pf' = [pf EXCEPT !.optimized_portfolio = o.portfolio,
                                     !.is_valid = r.is_valid, !.message = r.message,
                                     !.pc = "fetch"]
    /\ UNCHANGED <<now, ticks, apiVars, cacheVars, gcp, main, pool, wk, sel>>

\* main.py:84-107: the display raises KeyError on a ticker without a current
\* price; then one batch for the tickers of the optimized list, the payload,
\* and the skip when the payload is empty
ChallengePayload ==
    /\ pf.pc = "fetch"
    /\ IF \E i \in 1..Len(pf.optimized_portfolio) :
              pf.optimized_portfolio[i].ticker \notin DOMAIN pf.prices
       THEN pf' = [pf EXCEPT !.raised = "KeyError", !.pc = "raised"]
       ELSE \E historical_prices \in
                   HistoricalAnswers([i \in 1..Len(pf.optimized_portfolio) |->
                                         pf.optimized_portfolio[i].ticker]) :
               LET investments == Investments(pf.optimized_portfolio, historical_prices)
               IN  pf' = IF investments = <<>>
                         THEN [pf EXCEPT !.historical_prices = historical_prices,
                                         !.batches = @ + 1,
                                         !.investments = investments,
                                         !.pc = "skipped",
                                         !.skip_reasons = Append(@, "No historical prices"),
                                         !.returned = "False"]
                         ELSE [pf EXCEPT !.historical_prices = historical_prices,
                                         !.batches = @ + 1,
                                         !.investments = investments,
                                         !.pc = "submit"]
    /\ UNCHANGED <<now, ticks, apiVars, cacheVars, gcp, main, pool, wk, sel>>

\* main.py:112-127: the post, whose answer is None after the retries, or a
\* status
ChallengeSubmit ==
    /\ pf.pc = "submit"
    /\ \E result \in {"None", "correct", "incorrect"} :
          pf' = [pf EXCEPT !.posted = Append(@, pf.investments),
                           !.result = result, !.pc = "processed",
                           !.returned = "True"]
    /\ UNCHANGED <<now, ticks, apiVars, cacheVars, gcp, main, pool, wk, sel>>

InitChallenge ==
    /\ InitApi
    /\ InitCache
    /\ InitGcp
    /\ main = MainOff
    /\ pool = PoolIdle
    /\ wk = <<>>
    /\ sel = NoneV
    /\ now = 0
    /\ ticks = 0
    /\ \E strategy \in StrategyTags, context \in AllocContexts,
          I \in SUBSET (1..MaxListed), pattern \in {"rising", "falling", "level"} :
          pf = NewChallenge(strategy, context, PriceMap(I, pattern))

NextChallenge ==
    \/ ChallengeBuild
    \/ ChallengeValidate
    \/ ChallengeOptimize
    \/ ChallengePayload
    \/ ChallengeSubmit

SpecChallenge == InitChallenge /\ [][NextChallenge]_vars

\* ------------------------------------------------------------------ the write-through of a batch, step by step
\* what the two steps of a worker's set_historical_price leave alone
storeVars == <<epc, attempt, wait, ret, caller, outcomes, waits, hist, now, ticks,
               cret, cop, gcp, main, sel, pf>>

\* cache_manager.py:88, run by a pool thread: the assignment; no lock is held
\* between it and the test of line 90. An answer without a bar is not stored,
\* api_client.py:145.
WWrite(i) ==
    /\ wk[i].pc = "store"
    /\ IF wk[i].data # 0
       THEN /\ cache' = SetHistoricalPrice(cache, wk[i].ticker, pool.date, wk[i].data)
            /\ ch' = [ch EXCEPT
                        !.lastSetHist = Put(@, <<wk[i].ticker, pool.date>>, wk[i].data),
                        !.newHist = @ + NewKeys(cache, wk[i].ticker, pool.date),
                        !.tenth = @ + (IF AutoSaveDue(cache') THEN 1 ELSE 0)]
            /\ wk' = [wk EXCEPT ![i].pc = "size"]
       ELSE /\ wk' = [wk EXCEPT ![i].pc = "done", ![i].res = NoneV]
            /\ UNCHANGED <<cache, ch>>
    /\ UNCHANGED <<pool, stats, disk, storeVars>>

\* cache_manager.py:90-91, api_client.py:148: the test of the size as it is
\* now, the save, and the return of the price
WSizeCheck(i, io) ==
    /\ wk[i].pc = "size"
    /\ IF AutoSaveDue(cache)
       THEN /\ disk' = DiskAfterSave(cache, disk, now, io)
            /\ ch' = [ch EXCEPT
                        !.autosaves = @ + 1,
                        !.saved = IF io = "ok"
                                  THEN Some(cache.historical_price_cache)
                                  ELSE IF io = "open_fails" THEN @ ELSE NoneV]
       ELSE UNCHANGED <<disk, ch>>
    /\ wk' = [wk EXCEPT ![i].pc = "done", ![i].res = Some(wk[i].data)]
    /\ UNCHANGED <<pool, stats, cache, storeVars>>

\* the batch of the sample run, and the keys earlier batches stored
RaceList == <<AAPL, V>>

Fillers == SelectSeq(BKeys, LAMBDA k : k \notin {<<RaceList[i], D1>> : i \in 1..Len(RaceList)})

\* a process started over a file of n keys, none of them the batch's
InitWriteThrough ==
    /\ InitApi
    /\ InitGcp
    /\ InitRest
    /\ \E n \in {SaveEvery - 2, SaveEvery - 1} :
          disk = FileContent([NewCache EXCEPT !.historical_price_cache =
                                 [k \in {Fillers[i] : i \in 1..n} |-> 1]], 0)
    /\ cache = LoadFromFile(NewCache, disk)
    /\ cret = NoneV
    /\ cop = [op |-> "init"]
    /\ ch = [lookups |-> 0, valued |-> 0, missed |-> 0,
             lastSetCur |-> EmptyDict, lastSetHist |-> EmptyDict,
             saved |-> Some(cache.historical_price_cache), restarts |-> 0, ops |-> 0,
             newHist |-> 0, autosaves |-> 0, tenth |-> 0]
    /\ now = 0
    /\ ticks = 0

NextWriteThrough ==
    \/ PoolBegin(RaceList, D1)
    \/ \E i \in DOMAIN wk : PoolTake(i)
    \/ \E i \in DOMAIN wk : WLookup(i)
    \/ \E i \in DOMAIN wk : WCount(i)
    \/ \E i \in DOMAIN wk : WReadCalls(i)
    \/ \E i \in DOMAIN wk : WWriteCalls(i)
    \/ \E i \in DOMAIN wk, o \in {"ok", "Exception"}, data \in {0, 1} : WFunc(i, o, data)
    \/ \E i \in DOMAIN wk : WExcept(i)
    \/ \E i \in DOMAIN wk : WWrite(i)
    \/ \E i \in DOMAIN wk, io \in IOOutcomes : WSizeCheck(i, io)
    \/ \E i \in DOMAIN wk : PoolMerge(i)
    \/ PoolReturn

SpecWriteThrough == InitWriteThrough /\ [][NextWriteThrough]_vars

\* ------------------------------------------------------------------ claims, executor
\* the current call has returned
CallDone == epc = "idle" /\ outcomes # <<>>

Last(s) == s[Len(s)]

\* C1: an operation that keeps failing with a transient failure is retried
\* MAX_RETRIES (3) times, after waits of 1s, 2s and 4s, and only then does the
\* call give up with a failure.
C1_ThreeRetriesWithBackoff ==
    (CallDone /\ ret = NoneV /\ \A i \in 1..Len(outcomes) : IsTransient(outcomes[i]))
        => /\ Len(waits) = MAX_RETRIES
           /\ \A i \in 1..Len(waits) : waits[i] = RETRY_BASE_DELAY * Pow2(i - 1)

\* C2: an attempt that fails with a non-transient failure ends the call at once:
\* no sleep and no further attempt, the retry counter keeps its value, the
\* failure counter grows by one and None is returned, whatever came before.
C2_NonTransientAborts ==
    [][(epc = "try" /\ Len(outcomes') = Len(outcomes) + 1
          /\ ~IsTransient(Last(outcomes')) /\ Last(outcomes') # "ok")
        => /\ epc' = "idle"
           /\ ret' = NoneV
           /\ waits' = waits
           /\ stats'.retries = stats.retries
           /\ stats'.failures = stats.failures + 1]_vars

C2_Witness ==
    /\ CallDone
    /\ outcomes = <<"Timeout", "Exception">>
    /\ ret = NoneV
    /\ stats.retries = 1

\* C3: no failure of the operation propagates out of the call, a call that ends
\* after a failed attempt returns None, and the failure counter equals the
\* number of calls that ended in failure (one per failed call, none per
\* successful call).
C3_FailureReturnedAndCounted ==
    /\ epc # "raised"
    /\ stats.failures = hist.failed
    /\ (CallDone /\ Last(outcomes) # "ok") => ret = NoneV
    /\ (CallDone /\ Last(outcomes) = "ok") => ret # NoneV

C3_Witness ==
    /\ CallDone
    /\ hist.completed = 3
    /\ hist.failed = 2
    /\ Last(outcomes) = "Exception"

\* C4: between calls, total_calls is the number of attempts made, retries is the
\* number of attempts that were followed by a further attempt, total_calls is
\* completed calls plus retries, and failures is at most the completed calls.
C4_CounterAccounting ==
    /\ stats.total_calls = hist.attempts
    /\ epc = "idle" =>
        /\ stats.retries = hist.followed
        /\ stats.total_calls = hist.completed + stats.retries
        /\ stats.failures <= hist.completed

C4_Witness ==
    /\ epc = "idle"
    /\ hist.completed = 2
    /\ stats.retries = 3
    /\ stats.failures = 1

\* ------------------------------------------------------------------ claims, current prices
\* the entry of ticker tk was younger than CACHE_TTL at time t
FreshAt(tk, t) ==
    /\ tk \in DOMAIN cache.current_price_cache
    /\ t - cache.current_price_cache[tk].timestamp < CACHE_TTL

\* C5: a lookup of a ticker whose entry is younger than CACHE_TTL returns the
\* price last set for it; get_current_prices returns the cached price of every
\* fresh ticker of its list, sends no request when all of them are fresh, and
\* otherwise requests exactly the tickers of the list that are not fresh.
C5_FreshServedFromCache ==
    /\ (cop.op = "get_current" /\ FreshAt(cop.ticker, cop.at))
          => cret = Some(ch.lastSetCur[cop.ticker])
    /\ cop.op = "gcp_lookup" =>
          LET listed == {gcp.tickers[i] : i \in 1..Len(gcp.tickers)}
              stale == {tk \in listed : ~FreshAt(tk, cop.at)}
          IN  /\ \A tk \in listed \ stale :
                    /\ tk \in DOMAIN gcp.prices
                    /\ gcp.prices[tk] = ch.lastSetCur[tk]
              /\ stale = {} => (gcp.sent = <<>> /\ gcp.pc = "idle" /\ epc = "idle")
              /\ \A i \in 1..Len(gcp.sent) :
                    {gcp.sent[i][j] : j \in 1..Len(gcp.sent[i])} = stale

C5_Witness ==
    /\ cop.op = "gcp_lookup"
    /\ Len(gcp.tickers) = 2
    /\ DOMAIN gcp.prices # {}
    /\ Len(gcp.need_fetch) = 1
    /\ Len(gcp.sent) = 2

\* ------------------------------------------------------------------ claims, cache
\* C6: get_current_price reports a miss for a ticker that is absent from the
\* current region or whose entry has age >= CACHE_TTL, age exactly CACHE_TTL
\* included; a value it returns is that of an entry younger than CACHE_TTL.
C6_MissWhenAbsentOrExpired ==
    cop.op = "get_current" =>
        LET cur == cache.current_price_cache
            t == cop.ticker
        IN  /\ t \notin DOMAIN cur => cret = NoneV
            /\ (t \in DOMAIN cur /\ cop.at - cur[t].timestamp >= CACHE_TTL)
                  => cret = NoneV
            /\ cret # NoneV =>
                  /\ t \in DOMAIN cur
                  /\ cop.at - cur[t].timestamp < CACHE_TTL
                  /\ cret = Some(cur[t].price)

C6_Witness ==
    /\ cop.op = "get_current"
    /\ cop.ticker \in DOMAIN cache.current_price_cache
    /\ cop.at - cache.current_price_cache[cop.ticker].timestamp = CACHE_TTL
    /\ cret = NoneV

\* C7: every lookup of either region adds one to cache_hits when it returns a
\* value and one to cache_misses when it reports a miss, so the two counters
\* add up to the lookups made; the set operations change neither.
C7_HitMissAccounting ==
    /\ cache.stats.cache_hits = ch.valued
    /\ cache.stats.cache_misses = ch.missed
    /\ cache.stats.cache_hits + cache.stats.cache_misses = ch.lookups

C7_Witness ==
    /\ cop.op = "get_historical"
    /\ ch.lastSetCur # EmptyDict
    /\ cache.stats.cache_hits = 1
    /\ cache.stats.cache_misses = 1

\* C8: a lookup of a historical key written in this process returns the value
\* last written for it, however much time has passed and whatever was done to
\* the current region since.
C8_HistoricalNeverExpires ==
    cop.op = "get_historical" =>
        LET k == <<cop.ticker, cop.date>>
        IN  k \in DOMAIN ch.lastSetHist => cret = Some(ch.lastSetHist[k])

C8_Witness ==
    /\ cop.op = "get_historical"
    /\ cret = Some(2)
    /\ now > CACHE_TTL
    /\ ch.lastSetCur # EmptyDict

\* C9: within one process no step changes the value stored under a historical
\* key that is already present, a second set_historical_price with another
\* price included.
C9_HistoricalImmutable ==
    [][ch'.restarts = ch.restarts =>
        \A k \in DOMAIN cache.historical_price_cache :
            /\ k \in DOMAIN cache'.historical_price_cache
            /\ cache'.historical_price_cache[k] = cache.historical_price_cache[k]]_vars

\* ------------------------------------------------------------------ claims, persistence
\* C10: a cache instance constructed after a completed save holds exactly the
\* (ticker, date) -> price mapping that was in memory at that save, an empty
\* current region and zero counters; with no file it starts empty.
C10_RoundTrip ==
    cop.op = "load" =>
        /\ cache.current_price_cache = EmptyDict
        /\ cache.stats = [cache_hits |-> 0, cache_misses |-> 0]
        /\ ch.saved # NoneV => cache.historical_price_cache = ch.saved[1]
        /\ disk.kind = "absent" => cache.historical_price_cache = EmptyDict

C10_Witness ==
    /\ cop.op = "load"
    /\ ch.saved # NoneV
    /\ DOMAIN cache.historical_price_cache = Tickers \X Dates
    /\ ch.lastSetCur = EmptyDict
    /\ ch.ops = 3

\* ------------------------------------------------------------------ claims, persistence
\* C11: set_historical_price triggers a save exactly at the 10th, 20th, ... new
\* key written by this process: the saves it has triggered number the new keys
\* written, divided by ten - overwrites and entries loaded from the file do not
\* count.
C11_SaveEveryTenthNewKey == ch.autosaves = ch.newHist \div SaveEvery

\* C12: when main() has ended through one of the loop's two breaks, the flush
\* has run, and after a flush that succeeded the file, read back, holds every
\* historical entry that is in memory.
C12_FlushOnCleanExit ==
    main.pc = "done" =>
        /\ cop.op = "flush"
        /\ cop.io = "ok" =>
              LoadFromFile(NewCache, disk).historical_price_cache
                  = cache.historical_price_cache

\* the run ended after a batched save and a later write, and the flush
\* succeeded
C12_Witness ==
    /\ main.pc = "done"
    /\ cop.op = "flush"
    /\ cop.io = "ok"
    /\ ch.autosaves = 1
    /\ Cardinality(DOMAIN cache.historical_price_cache) = SaveEvery + 1

\* C13: right after construction over a file that is missing, unparseable, or
\* holds a key that does not split into ticker and date, the historical region
\* is empty: nothing of such a file is kept.
C13_CorruptStoreStartsEmpty ==
    (/\ cop.op \in {"init", "load"}
     /\ \/ disk.kind \in {"absent", "corrupt"}
        \/ \E i \in 1..Len(disk.historical) :
              Len(Split(disk.historical[i][1], "|")) # 2)
        => cache.historical_price_cache = EmptyDict

\* C14: no cache operation ends with an I/O error raised to its caller; a
\* save that failed, called directly or from set_historical_price, leaves both
\* regions and the counters as they were when it was called; and a lookup
\* returns the value held in memory whatever happened to the file.
C14_IOErrorsContained ==
    [][/\ cop'.op # "raised"
       /\ (cop'.op = "save" /\ cop'.io # "ok") => cache' = cache
       /\ (cop'.op = "set_historical" /\ ch'.autosaves > ch.autosaves) =>
             cache' = SetHistoricalPrice(cache, cop'.ticker, cop'.date, cop'.price)
       /\ (cop'.op = "get_historical"
              /\ <<cop'.ticker, cop'.date>> \in DOMAIN ch'.lastSetHist) =>
             cret' = Some(ch'.lastSetHist[<<cop'.ticker, cop'.date>>])]_vars

\* a save triggered by set_historical_price failed while writing, and the key
\* written is then looked up and found
C14_Witness ==
    /\ disk.kind = "corrupt"
    /\ ch.autosaves = 1
    /\ ch.saved = NoneV
    /\ cop.op = "get_historical"
    /\ <<cop.ticker, cop.date>> \in DOMAIN ch.lastSetHist
    /\ cret # NoneV

\* ------------------------------------------------------------------ claims, the batch
\* the tickers of the running batch
BatchTickers == {pool.tickers[i] : i \in 1..Len(pool.tickers)}

\* the tasks of the running batch that were submitted for ticker t
TasksOf(t) == {i \in DOMAIN wk : wk[i].ticker = t}

\* C15: a ticker that was in the cache when the batch began is never fetched;
\* when the batch has returned, every other ticker of the list has had exactly
\* one call of _api_call_with_retry made for it; and when no attempt failed the
\* requests sent number the tickers of the list less the pre-cached ones.
C15_OneFetchPerMiss ==
    /\ \A t \in pool.hit0 : \A i \in TasksOf(t) : wk[i].calls = 0
    /\ pool.pc = "returned" =>
          /\ \A t \in BatchTickers \ pool.hit0 :
                /\ Cardinality(TasksOf(t)) = 1
                /\ \A i \in TasksOf(t) : wk[i].calls = 1
          /\ (\A i \in DOMAIN wk : wk[i].o = "ok" /\ wk[i].att = 0) =>
                /\ \A i \in DOMAIN wk : wk[i].tries = 1
                /\ Len(wk) = Len(pool.tickers) - Cardinality(pool.hit0)
                /\ pool.ev.total_calls = Len(pool.tickers) - Cardinality(pool.hit0)

\* a batch of three tickers with one pre-cached has returned after exactly two
\* requests, none of which failed
C15_Witness ==
    /\ pool.pc = "returned"
    /\ Len(pool.tickers) = 3
    /\ Cardinality(pool.hit0) = 1
    /\ \A i \in DOMAIN wk : wk[i].o = "ok" /\ wk[i].att = 0
    /\ pool.ev.total_calls = 2

\* C16: the mapping a batch returns has exactly the pre-cached tickers, each
\* with its cached value, and the tickers whose fetch produced a price, each
\* with that price, which is by then in the historical cache; a ticker whose
\* fetch failed is absent, and no key is outside the input list.
C16_ResultMapping ==
    pool.pc = "returned" =>
        /\ DOMAIN pool.prices =
              pool.hit0 \cup {wk[i].ticker : i \in {j \in DOMAIN wk : wk[j].res # NoneV}}
        /\ DOMAIN pool.prices \subseteq BatchTickers
        /\ \A t \in pool.hit0 :
              pool.prices[t] = cache.historical_price_cache[<<t, pool.date>>]
        /\ \A i \in DOMAIN wk :
              IF wk[i].o = "ok" /\ wk[i].data # 0
              THEN /\ pool.prices[wk[i].ticker] = wk[i].data
                   /\ HistoricalLookup(cache, wk[i].ticker, pool.date) = Some(wk[i].data)
              ELSE wk[i].ticker \notin DOMAIN pool.prices

\* a batch has returned with one pre-cached ticker, one fetched and one whose
\* fetch failed
C16_Witness ==
    /\ pool.pc = "returned"
    /\ Cardinality(pool.hit0) = 1
    /\ \E i \in DOMAIN wk, j \in DOMAIN wk :
          /\ wk[i].o = "ok" /\ wk[i].data # 0
          /\ wk[j].o # "ok"
    /\ Cardinality(DOMAIN pool.prices) = 2

\* C18: whatever list is passed, no two tasks of a batch send a request for
\* the same ticker.
C18_OneWorkerPerTicker ==
    \A i \in DOMAIN wk, j \in DOMAIN wk :
        (i # j /\ wk[i].ticker = wk[j].ticker) => (wk[i].tries = 0 \/ wk[j].tries = 0)

\* C19: when a batch has returned, every price a task fetched is in the
\* historical region, and the hit, miss, call, retry and failure counters
\* equal the numbers of those events.
C19_NoLostUpdate ==
    pool.pc = "returned" =>
        /\ \A i \in DOMAIN wk :
              (wk[i].o = "ok" /\ wk[i].data # 0) =>
                  HistoricalLookup(cache, wk[i].ticker, pool.date) = Some(wk[i].data)
        /\ cache.stats.cache_hits = pool.ev.cache_hits
        /\ cache.stats.cache_misses = pool.ev.cache_misses
        /\ stats.total_calls = pool.ev.total_calls
        /\ stats.retries = pool.ev.retries
        /\ stats.failures = pool.ev.failures

\* C17: a batch returns only when every task it submitted has ended and has
\* been collected, and a batch that was submitted does return, also when it has
\* more tasks than the pool has workers.
C17_BatchCompletes ==
    /\ [](pool.pc = "returned" =>
            \A i \in DOMAIN wk : wk[i].pc = "done" /\ i \in pool.merged)
    /\ (pool.pc = "running") ~> (pool.pc = "returned")

\* the pool is full, a task is waiting in the queue, and a call has ended in
\* a failure
C17_Witness ==
    /\ pool.pc = "running"
    /\ Len(wk) > MAX_WORKERS
    /\ Cardinality({i \in DOMAIN wk : wk[i].pc = "lookup"}) = MAX_WORKERS - 1
    /\ \E i \in DOMAIN wk : wk[i].pc = "queued"
    /\ \E i \in DOMAIN wk : wk[i].pc = "done" /\ wk[i].o # "ok"

\* ------------------------------------------------------------------ claims, strategies
\* C20: for an integer strength from 0 to 100 exactly one band holds it, and
\* the strategy selected is diversification up to 30, preference_weighted from
\* 31 to 60 and high_conviction from 61; outside 0..100 it is diversification;
\* the budget plays no part.
C20_StrategyBands ==
    sel # NoneV =>
        LET x == sel[1].context.preference_strength
        IN  /\ x \in 0..100 =>
                  Cardinality({i \in DOMAIN STRATEGY_THRESHOLDS :
                      /\ STRATEGY_THRESHOLDS[i].min_val <= x
                      /\ x <= STRATEGY_THRESHOLDS[i].max_val}) = 1
            /\ sel[1].strategy =
                  IF x \in 0..30 THEN "diversification"
                  ELSE IF x \in 31..60 THEN "preference_weighted"
                  ELSE IF x \in 61..100 THEN "high_conviction"
                  ELSE "diversification"

\* the strength at the top of the middle band was given its strategy
C20_Witness ==
    /\ sel # NoneV
    /\ sel[1].context.preference_strength = 60
    /\ sel[1].strategy = "preference_weighted"

\* ------------------------------------------------------------------ claims, allocator
\* the sector of a stock of the universe
SectorOf(ticker) ==
    STOCKS[CHOOSE k \in 1..Len(STOCKS) : STOCKS[k].ticker = ticker].sector

Sectors == {STOCKS[k].sector : k \in 1..Len(STOCKS)}

\* the cost of the positions of a list whose sector is one of the given ones
RECURSIVE CostIn(_, _, _)
CostIn(portfolio, prices, sectors) ==
    IF portfolio = <<>> THEN 0
    ELSE (IF SectorOf(Head(portfolio).ticker) \in sectors
          THEN Head(portfolio).shares * prices[Head(portfolio).ticker]
          ELSE 0)
         + CostIn(Tail(portfolio), prices, sectors)

\* the tickers of a list whose sector is one of the given ones
TickersIn(portfolio, sectors) ==
    {portfolio[i].ticker : i \in {j \in 1..Len(portfolio) :
                                     SectorOf(portfolio[j].ticker) \in sectors}}

\* the stocks a strategy may choose from whose sector is one of the given ones
PricedIn(context, prices, sectors) ==
    {s \in {STOCKS[k] : k \in 1..Len(STOCKS)} :
        /\ s.ticker \in DOMAIN prices
        /\ s.sector \notin context.avoided_sectors
        /\ s.sector \in sectors}

\* C21: whatever the strategy, every ticker of the allocation that
\* build_portfolio returns has a price in the price map and is a stock of a
\* sector the context does not avoid, also when that sector is preferred too.
C21_AvoidedAndUnpricedExcluded ==
    pf.pc # "build" =>
        \A i \in 1..Len(pf.portfolio) :
            /\ pf.portfolio[i].ticker \in DOMAIN pf.prices
            /\ \E k \in 1..Len(STOCKS) :
                  /\ STOCKS[k].ticker = pf.portfolio[i].ticker
                  /\ STOCKS[k].sector \notin pf.context.avoided_sectors

C21_Witness ==
    /\ pf.pc = "validate"
    /\ pf.strategy = "preference_weighted"
    /\ "Technology" \in pf.context.preferred_sectors
    /\ "Technology" \in pf.context.avoided_sectors
    /\ "AAPL" \in DOMAIN pf.prices
    /\ "GOOG" \in DOMAIN pf.prices
    /\ Len(pf.portfolio) = 3

\* a list names no ticker twice and gives each a positive whole count
EachOncePositive(portfolio) ==
    /\ \A i, j \in 1..Len(portfolio) :
          portfolio[i].ticker = portfolio[j].ticker => i = j
    /\ \A i \in 1..Len(portfolio) : portfolio[i].shares \in Nat \ {0}

\* C22: the allocation that build_portfolio returns, for any strategy tag, and
\* the allocation that optimize_budget_usage returns for it name each ticker
\* at most once and give each a positive whole number of shares.
C22_EachTickerOncePositive ==
    /\ pf.pc # "build" => EachOncePositive(pf.portfolio)
    /\ pf.pc \in {"revalidate", "display"} =>
          /\ EachOncePositive(pf.optimized_portfolio)
          /\ Len(pf.optimized_portfolio) = Len(pf.portfolio)

C22_Witness ==
    /\ pf.pc = "revalidate"
    /\ Len(pf.portfolio) >= 3
    /\ pf.optimized_portfolio # pf.portfolio
    /\ \E i \in 1..Len(pf.portfolio) : pf.portfolio[i].shares = 1

CheapestPreferred(most) ==
    LET priced == PricedIn(pf.context, pf.prices, pf.context.preferred_sectors)
        listed == TickersIn(pf.portfolio, pf.context.preferred_sectors)
    IN  /\ Cardinality(listed) <= most
        /\ \A t \in listed :
              Cardinality({s \in priced : pf.prices[s.ticker] < pf.prices[t]}) < most

\* C25: _preference_weighted returns at most 3 tickers of preferred sectors,
\* which are among the 3 cheapest priced ones, and at most 3 of other sectors,
\* no two of these of one sector; a pool without a stock gives no ticker and
\* the call still returns.
C25_PreferenceWeightedPools ==
    pf.pc # "build" /\ pf.strategy = "preference_weighted" =>
        LET others == Sectors \ pf.context.preferred_sectors
        IN  /\ CheapestPreferred(3)
            /\ Cardinality(TickersIn(pf.portfolio, others)) <= 3
            /\ \A sector \in others :
                  Cardinality(TickersIn(pf.portfolio, {sector})) <= 1
            /\ PricedIn(pf.context, pf.prices, pf.context.preferred_sectors) = {}
                  => TickersIn(pf.portfolio, pf.context.preferred_sectors) = {}
            /\ PricedIn(pf.context, pf.prices, others) = {}
                  => TickersIn(pf.portfolio, others) = {}
            /\ Len(pf.portfolio) =
                  Cardinality(TickersIn(pf.portfolio, pf.context.preferred_sectors))
                  + Cardinality(TickersIn(pf.portfolio, others))

C25_Witness ==
    /\ pf.pc = "validate"
    /\ pf.strategy = "preference_weighted"
    /\ pf.context.preferred_sectors = {"Technology"}
    /\ Cardinality(PricedIn(pf.context, pf.prices, {"Technology"})) = 4
    /\ Cardinality(PricedIn(pf.context, pf.prices, {"Consumer Cyclical"})) = 2
    /\ Cardinality(TickersIn(pf.portfolio, {"Technology"})) = 3
    /\ Cardinality(TickersIn(pf.portfolio, Sectors \ {"Technology"})) = 2

\* C26: _high_conviction returns at most 4 tickers of preferred sectors,
\* which are among the 4 cheapest priced ones whatever their sectors, and at
\* most one other ticker, and no priced stock outside the preferred and the
\* avoided sectors is cheaper than that one; a pool without a stock gives no
\* ticker and the call still returns.
C26_HighConvictionPools ==
    pf.pc # "build" /\ pf.strategy = "high_conviction" =>
        LET others == Sectors \ pf.context.preferred_sectors
            listed == TickersIn(pf.portfolio, others)
        IN  /\ CheapestPreferred(4)
            /\ Cardinality(listed) <= 1
            /\ \A t \in listed :
                  \A s \in PricedIn(pf.context, pf.prices, others) :
                      pf.prices[t] <= pf.prices[s.ticker]
            /\ PricedIn(pf.context, pf.prices, pf.context.preferred_sectors) = {}
                  => TickersIn(pf.portfolio, pf.context.preferred_sectors) = {}
            /\ PricedIn(pf.context, pf.prices, others) = {} => listed = {}
            /\ Len(pf.portfolio) =
                  Cardinality(TickersIn(pf.portfolio, pf.context.preferred_sectors))
                  + Cardinality(listed)

C26_Witness ==
    /\ pf.pc = "validate"
    /\ pf.strategy = "high_conviction"
    /\ pf.context.preferred_sectors = {"Technology"}
    /\ Cardinality(TickersIn(pf.portfolio, {"Technology"})) = 4
    /\ Cardinality(PricedIn(pf.context, pf.prices, Sectors \ {"Technology"})) >= 2
    /\ Cardinality(TickersIn(pf.portfolio, Sectors \ {"Technology"})) = 1

\* the positions of the stocks selected from a pool when pct hundredths of
\* the budget are divided evenly over them: the floor of a stock's part by its
\* price, and no position where that is zero
EvenSplit(selected, pct, budget) ==
    LET n == Len(selected)
        bought == {i \in 1..n :
                      (pct * budget) \div (100 * n * selected[i].price) > 0}
        at(k) == CHOOSE i \in bought : Cardinality({j \in bought : j <= i}) = k
    IN  [k \in 1..Cardinality(bought) |->
            [ticker |-> selected[at(k)].ticker,
             shares |-> (pct * budget) \div (100 * n * selected[at(k)].price)]]

\* the first n elements of a list, or all of a shorter one
FirstOf(s, n) == SubSeq(s, 1, IF Len(s) < n THEN Len(s) ELSE n)

\* the stocks each strategy selects from its pools: the other pool of
\* preference_weighted gives the cheapest stock of each sector, three at most
EvenlyOverSelected(strategy, context, prices) ==
    LET p == Pools(context, prices)
    IN  IF strategy = "preference_weighted"
        THEN EvenSplit(FirstOf(p.preferred_stocks, 3), 60, context.budget)
             \o EvenSplit(SelectCapped(p.other_stocks, <<>>, 3, 1), 36,
                          context.budget)
        ELSE IF strategy = "high_conviction"
        THEN EvenSplit(FirstOf(p.preferred_stocks, 4), 80, context.budget)
             \o EvenSplit(FirstOf(p.other_stocks, 1), 16, context.budget)
        ELSE EvenSplit(DiversificationSelected(context, prices), 96,
                       context.budget)

\* C27: in every strategy a pool's sub-budget is divided by the number of
\* tickers selected from the pool, a selected ticker gets the floor of that
\* part of the sub-budget divided by its price, and a ticker whose count
\* floors to zero is left out of the result.
C27_EvenSplitOverSelected ==
    pf.pc # "build" =>
        pf.portfolio = EvenlyOverSelected(pf.strategy, pf.context, pf.prices)

\* ------------------------------------------------------------------ claims, validator
\* the cost of a list whose tickers all have a price
RECURSIVE TotalCost(_, _)
TotalCost(portfolio, prices) ==
    IF portfolio = <<>> THEN 0
    ELSE Head(portfolio).shares * prices[Head(portfolio).ticker]
         + TotalCost(Tail(portfolio), prices)

\* a list that is not empty, with a price for every ticker and a positive
\* count for every position
WellFormed(portfolio, prices) ==
    /\ portfolio # <<>>
    /\ \A i \in 1..Len(portfolio) :
          portfolio[i].ticker \in DOMAIN prices /\ portfolio[i].shares > 0

\* C28: validate_portfolio returns invalid, with a reason, for exactly the
\* lists that are empty, or hold a ticker without a price, or hold a count
\* that is not positive, or cost more than budget * 1.01; it returns valid for
\* every other list, and the list is the same after the call.
C28_InvalidExactlyWhen ==
    [][pf.pc = "call" /\ pf'.pc = "validated" =>
        LET portfolio == pf.portfolio
            budget == pf.context.budget
            invalid ==
                \/ portfolio = <<>>
                \/ \E i \in 1..Len(portfolio) :
                      portfolio[i].ticker \notin DOMAIN pf.prices
                \/ \E i \in 1..Len(portfolio) : portfolio[i].shares <= 0
                \/ 100 * TotalCost(portfolio, pf.prices) > 101 * budget
        IN  /\ pf'.is_valid = ~invalid
            /\ invalid => pf'.message \in {"Portfolio is empty", "Missing price",
                                           "Invalid share count", "Budget breach"}
            /\ pf'.portfolio = portfolio]_vars

C28_Witness ==
    /\ pf.pc = "validated"
    /\ ~pf.is_valid
    /\ pf.message = "Budget breach"
    /\ Len(pf.portfolio) = 2
    /\ TotalCost(pf.portfolio, pf.prices) = pf.context.budget + 2

\* C29: validate_portfolio rejects a list that costs more than budget * 1.01
\* and accepts a well-formed list that costs from 85% to 101% of the budget,
\* both ends included; a well-formed list under 85% is accepted with the
\* low-usage warning, and only such a list gets the warning.
C29_ToleranceAndWarning ==
    pf.pc = "validated" =>
        LET budget == pf.context.budget
            warned == pf.message = "WARNING: Low budget usage"
        IN  /\ WellFormed(pf.portfolio, pf.prices) =>
                  LET cost == TotalCost(pf.portfolio, pf.prices)
                  IN  /\ 100 * cost > 101 * budget => ~pf.is_valid
                      /\ 85 * budget <= 100 * cost /\ 100 * cost <= 101 * budget
                            => pf.is_valid /\ ~warned
                      /\ 100 * cost < 85 * budget => pf.is_valid /\ warned
            /\ warned => WellFormed(pf.portfolio, pf.prices)

C29_Witness ==
    /\ pf.pc = "validated"
    /\ pf.is_valid
    /\ pf.message = "Valid portfolio"
    /\ 100 * TotalCost(pf.portfolio, pf.prices) = 101 * pf.context.budget

\* C30: the list optimize_budget_usage returns costs at most the larger of
\* the cost of the list it was given and budget * TARGET_BUDGET_USAGE plus
\* the cheapest price of the price map, and a list that already costs more
\* than budget * TARGET_BUDGET_USAGE is returned as it is.
C30_BoundedTopUp ==
    pf.pc = "optimized" /\ pf.raised = "" =>
        IF pf.portfolio = <<>> THEN pf.optimized_portfolio = <<>> ELSE
        LET budget == pf.context.budget
            before == 100 * TotalCost(pf.portfolio, pf.prices)
            after == 100 * TotalCost(pf.optimized_portfolio, pf.prices)
            bound == 98 * budget + 100 * MinPrice(pf.prices)
        IN  /\ after <= (IF before > bound THEN before ELSE bound)
            /\ before > 98 * budget => pf.optimized_portfolio = pf.portfolio

C30_Witness ==
    /\ pf.pc = "optimized"
    /\ pf.raised = ""
    /\ Len(pf.portfolio) = 2
    /\ pf.portfolio[1].shares > 0
    /\ pf.portfolio[2].shares > 0
    /\ pf.prices[pf.portfolio[2].ticker] < pf.prices[pf.portfolio[1].ticker]
    /\ pf.optimized_portfolio[1].shares = pf.portfolio[1].shares
    /\ pf.optimized_portfolio[2].shares > pf.portfolio[2].shares
    /\ 100 * TotalCost(pf.optimized_portfolio, pf.prices)
          > 98 * pf.context.budget - 100 * pf.prices[pf.portfolio[2].ticker]

\* ------------------------------------------------------------------ claims, the top-up loop
\* C31: from remaining >= 0 on, optimize_budget_usage passes once over the
\* entries in ascending price order; a pass for a ticker adds
\* floor(remaining / price) shares to it when that is positive and takes
\* exactly their cost off remaining; remaining is never negative, and no pass
\* follows one that leaves remaining below the cheapest price of the whole
\* price map. What is returned is what the passes bought.
C31_SinglePassAscending ==
    pf.pc \in {"loop", "returned"} /\ pf.portfolio # <<>> /\ pf.remaining >= 0 =>
        LET n == Len(pf.visits)
            P(t) == pf.prices[t]
        IN  /\ n <= Len(pf.portfolio)
            /\ n + Len(pf.sorted_portfolio) = Len(pf.portfolio)
            /\ \A t \in DOMAIN pf.prices :
                  Cardinality({i \in 1..n : pf.visits[i].ticker = t})
                  + Cardinality({i \in 1..Len(pf.sorted_portfolio) :
                                    pf.sorted_portfolio[i].ticker = t})
                  = Cardinality({i \in 1..Len(pf.portfolio) :
                                    pf.portfolio[i].ticker = t})
            /\ \A i \in 1..n :
                  LET v == pf.visits[i]
                  IN  /\ \A j \in 1..(i - 1) : P(pf.visits[j].ticker) <= P(v.ticker)
                      /\ \A j \in 1..Len(pf.sorted_portfolio) :
                            P(v.ticker) <= P(pf.sorted_portfolio[j].ticker)
                      /\ v.before >= 0
                      /\ v.added >= 0
                      /\ v.added * 100 * P(v.ticker) <= v.before
                      /\ v.before < (v.added + 1) * 100 * P(v.ticker)
                      /\ v.after = v.before - v.added * 100 * P(v.ticker)
                      /\ v.after >= 0
                      /\ i < n => /\ pf.visits[i + 1].before = v.after
                                  /\ v.after >= 100 * MinPrice(pf.prices)
            /\ n > 0 => /\ pf.visits[1].before =
                              98 * pf.context.budget
                              - 100 * TotalCost(pf.portfolio, pf.prices)
                        /\ pf.visits[n].after = pf.remaining
            /\ n > 0 /\ pf.remaining < 100 * MinPrice(pf.prices) => pf.pc = "returned"
            /\ pf.pc = "loop" => pf.sorted_portfolio # <<>>
            /\ Len(pf.optimized_portfolio) = Len(pf.portfolio)
            /\ \A t \in DOMAIN pf.prices :
                  LET at == {i \in 1..Len(pf.portfolio) : pf.portfolio[i].ticker = t}
                      RECURSIVE bought(_)
                      bought(i) == IF i = 0 THEN 0
                                   ELSE bought(i - 1)
                                        + (IF pf.visits[i].ticker = t
                                           THEN pf.visits[i].added ELSE 0)
                  IN  \A k \in at :
                        pf.optimized_portfolio[k].shares =
                            pf.portfolio[k].shares
                            + (IF \A j \in at : k <= j THEN bought(n) ELSE 0)
            /\ pf.pc = "returned" =>
                  pf.optimized_portfolio =
                      optimize_budget_usage(pf.portfolio, pf.context.budget,
                                            pf.prices).portfolio

C31_Witness ==
    /\ pf.pc = "returned"
    /\ Len(pf.visits) = 2
    /\ pf.visits[1].ticker # pf.visits[2].ticker
    /\ pf.visits[1].added > 0
    /\ pf.visits[2].added = 0
    /\ pf.remaining > 0
    /\ \A i \in 1..Len(pf.portfolio) : pf.portfolio[i].shares > 0

\* the lowest price among the tickers of a list
CheapestHeld(portfolio, prices) ==
    CHOOSE m \in {prices[portfolio[i].ticker] : i \in 1..Len(portfolio)} :
        \A i \in 1..Len(portfolio) : m <= prices[portfolio[i].ticker]

\* C35: when optimize_budget_usage runs its loop (remaining >= 0), the list
\* it returns has the tickers of the list it was given in the same order, no
\* count is lower, at most one is higher and that one is of a position with
\* the lowest price of the list; the list it was given stays as it was.
C35_OnlyCheapestGains ==
    [][/\ pf'.portfolio = pf.portfolio
       /\ pf'.pc = "returned" /\ pf'.visits # <<>> =>
            LET given == pf.portfolio
                result == pf'.optimized_portfolio
                gained == {i \in 1..Len(given) : result[i].shares > given[i].shares}
            IN  /\ Len(result) = Len(given)
                /\ \A i \in 1..Len(given) :
                      /\ result[i].ticker = given[i].ticker
                      /\ result[i].shares >= given[i].shares
                /\ Cardinality(gained) <= 1
                /\ \A i \in gained :
                      pf.prices[given[i].ticker] = CheapestHeld(given, pf.prices)]_vars

C35_Witness ==
    /\ pf.pc = "returned"
    /\ Len(pf.visits) = 2
    /\ Len(pf.portfolio) = 2
    /\ pf.portfolio[1].shares > 0
    /\ pf.portfolio[2].shares > 0
    /\ pf.prices[pf.portfolio[2].ticker] < pf.prices[pf.portfolio[1].ticker]
    /\ pf.optimized_portfolio[1] = pf.portfolio[1]
    /\ pf.optimized_portfolio[2].shares > pf.portfolio[2].shares

\* C36: when optimize_budget_usage is given a list that is not empty and
\* costs at most budget * TARGET_BUDGET_USAGE, what is left unspent of
\* budget * TARGET_BUDGET_USAGE after it is less than the lowest price among
\* the tickers of the list.
C36_WithinOneCheapestShare ==
    /\ pf.pc = "optimized"
    /\ pf.raised = ""
    /\ pf.portfolio # <<>>
    /\ 100 * TotalCost(pf.portfolio, pf.prices) <= 98 * pf.context.budget
    => LET gap == 98 * pf.context.budget
                  - 100 * TotalCost(pf.optimized_portfolio, pf.prices)
       IN  gap >= 0 /\ gap < 100 * CheapestHeld(pf.portfolio, pf.prices)

C36_Witness ==
    /\ pf.pc = "optimized"
    /\ pf.raised = ""
    /\ Len(pf.portfolio) = 2
    /\ \A i \in 1..2 : pf.portfolio[i].shares > 0
    /\ pf.optimized_portfolio # pf.portfolio
    /\ 98 * pf.context.budget - 100 * TotalCost(pf.optimized_portfolio, pf.prices)
          > 100 * MinPrice(pf.prices)

\* ------------------------------------------------------------------ claims, eviction
\* C33: a call of get_current_price for a ticker whose entry is CACHE_TTL
\* seconds old or older reports a miss and leaves no entry for the ticker in
\* the current region; clear_current_cache removes exactly the entries that
\* are CACHE_TTL seconds old or older and keeps every younger entry as it is.
C33_ExpiredEntriesEvicted ==
    [][/\ cop'.op = "get_current" /\ ch'.lookups = ch.lookups + 1 =>
            LET t == cop'.ticker
                region == cache.current_price_cache
            IN  t \in DOMAIN region /\ now - region[t].timestamp >= CACHE_TTL =>
                    /\ cret' = NoneV
                    /\ t \notin DOMAIN cache'.current_price_cache
       /\ cop'.op = "clear_current" /\ ch'.ops = ch.ops + 1 =>
            LET region == cache.current_price_cache
                young == {t \in DOMAIN region : now - region[t].timestamp < CACHE_TTL}
            IN  /\ DOMAIN cache'.current_price_cache = young
                /\ \A t \in young : cache'.current_price_cache[t] = region[t]]_vars

\* ------------------------------------------------------------------ claims, the submission
\* the tickers of a list for which the batch gave a price that is not 0
Available(portfolio, historical_prices) ==
    {portfolio[i].ticker : i \in {j \in 1..Len(portfolio) :
        /\ portfolio[j].ticker \in DOMAIN historical_prices
        /\ historical_prices[portfolio[j].ticker] # 0}}

\* C32: in process_challenge a ticker of the optimized allocation without a
\* historical price is left out of the submission, and every other ticker is
\* submitted with its optimized share count and its historical price; when no
\* ticker has a historical price the challenge is skipped: nothing is
\* submitted, process_challenge returns False and the batch was asked for once.
C32_UnpricedDropped ==
    pf.pc \in {"submit", "processed", "skipped"} /\ pf.batches > 0 =>
        LET available == Available(pf.optimized_portfolio, pf.historical_prices)
        IN  /\ pf.batches = 1
            /\ {pf.investments[i].ticker : i \in 1..Len(pf.investments)} = available
            /\ Len(pf.investments) = Cardinality(available)
            /\ \A i \in 1..Len(pf.investments) :
                  /\ pf.investments[i].price = pf.historical_prices[pf.investments[i].ticker]
                  /\ \E j \in 1..Len(pf.optimized_portfolio) :
                        /\ pf.optimized_portfolio[j].ticker = pf.investments[i].ticker
                        /\ pf.optimized_portfolio[j].shares = pf.investments[i].shares
            /\ available = {} <=> pf.pc = "skipped"
            /\ pf.pc = "skipped" =>
                  /\ pf.posted = <<>>
                  /\ pf.returned = "False"
                  /\ pf.skip_reasons = <<"No historical prices">>
            /\ pf.pc = "processed" => pf.posted = <<pf.investments>>

\* a submission of two tickers for an allocation of three, whose third ticker
\* got no price from the batch
C32_Witness ==
    /\ pf.pc = "processed"
    /\ Len(pf.optimized_portfolio) = 3
    /\ Len(pf.posted[1]) = 2
    /\ \E i \in 1..3 : pf.optimized_portfolio[i].ticker \notin DOMAIN pf.historical_prices
    /\ \A i \in 1..2 : pf.posted[1][i].price = 3

\* C34: whenever process_challenge submits, the list it built passed the
\* first validation, and the optimized list behind the submission costs at
\* most budget * 1.01 at the current prices, has only positive counts, and
\* would pass the second validation, whose result the code does not test.
C34_SubmittedWithinBudget ==
    pf.posted # <<>> =>
        /\ WellFormed(pf.portfolio, pf.prices)
        /\ 100 * TotalCost(pf.portfolio, pf.prices) <= 101 * pf.context.budget
        /\ WellFormed(pf.optimized_portfolio, pf.prices)
        /\ 100 * TotalCost(pf.optimized_portfolio, pf.prices) <= 101 * pf.context.budget
        /\ pf.is_valid
        /\ \A i \in 1..Len(pf.posted[1]) : pf.posted[1][i].shares > 0

\* a submission after a top-up that bought shares
C34_Witness ==
    /\ pf.posted # <<>>
    /\ pf.optimized_portfolio # pf.portfolio
    /\ Len(pf.posted[1]) = Len(pf.optimized_portfolio)
    /\ 100 * TotalCost(pf.optimized_portfolio, pf.prices) > 96 * pf.context.budget

\* ------------------------------------------------------------------ claims, the batch's statistics
\* C37: when a batch over distinct tickers has returned, the cache's hit
\* counter has risen by the number of tickers that were cached at its start
\* and the miss counter by the number of the others: each requested ticker
\* was counted once.
C37_EachTickerCountedOnce ==
    pool.pc = "returned" =>
        /\ cache.stats.cache_hits = NewCache.stats.cache_hits + Cardinality(pool.hit0)
        /\ cache.stats.cache_misses =
              NewCache.stats.cache_misses + Len(pool.tickers) - Cardinality(pool.hit0)

\* ------------------------------------------------------------------ claims, the save of a batch
\* C38: when a batch has returned, a save was made for every write of its
\* workers that brought the number of stored historical prices to a multiple
\* of SaveEvery, however the workers' writes and size tests were interleaved.
C38_TenthWriteSaves ==
    pool.pc = "returned" => ch.autosaves >= ch.tenth

====
